---------------------------- MODULE Spec2Model ----------------------------
(* A state-machine model of the RenderX prerender gateway:                 *)
(*   config.ts   host matching and the effective configuration             *)
(*   index.ts    path validation, classification, the main router,        *)
(*               renderPage, the request-timeout middleware, render()      *)
(*   cache.ts    the two-file cache store                                  *)
(* Text is modelled as sequences of one-token strings ("a", ".", "/"), so  *)
(* that substring, prefix and segment operations act as the code's do.     *)
EXTENDS Integers, Sequences, FiniteSets, TLC

VARIABLES
    call,        \* the pure function under check and its arguments
    ret,         \* its result, or Pending before it is applied
    config,      \* configData (config.ts:79), the loaded GlobalConfig
    now,         \* Date.now(), in cache time units
    htmlFile,    \* cache directory: digest -> content of {digest}.html
    metaFile,    \* cache directory: digest -> content of {digest}.html.meta
    procs,       \* in-flight calls and requests, one record per slot
    activeRequests, \* renderer.ts activeRequests counter (index.ts:1202)
    log,         \* the call of the cache interface that finished before the current one
    nCalls,      \* calls and requests started so far
    browser,     \* the browser handle (index.ts:1200), 0 for null
    browserLaunchPromise, \* the launch latch (index.ts:1201), 0 for null
    launches,    \* the launches started, those in progress, the browsers connected
    cacheDirInitialized, \* cache.ts cacheDirInitialized (cache.ts:18)
    cacheDirPromise,     \* the creation latch (cache.ts:19), 0 for null
    mkdirs,      \* the directory creations started, and those in progress
    cleanupInterval,     \* the periodic cleanup timer (cache.ts:55), 0 for null
    exited       \* process.exit has been called

vars == <<call, ret, config, now, htmlFile, metaFile, procs, activeRequests, log, nCalls,
          browser, browserLaunchPromise, launches,
          cacheDirInitialized, cacheDirPromise, mkdirs, cleanupInterval, exited>>

lifeVars == <<cacheDirInitialized, cacheDirPromise, mkdirs, cleanupInterval, exited>>

\* the timer of setInterval: whether it is set, its period and the time of
\* its next run
NoInterval == [set |-> FALSE, ms |-> 0, due |-> 0]
Interval(minutes, t) ==
    [set |-> TRUE, ms |-> minutes * 60 * 1000, due |-> t + minutes * 60 * 1000]

\* a server that has started: the cache directory is there, created by the
\* call of ensureCacheDir at module load (cache.ts:50), the periodic cleanup
\* is scheduled with the default period and no shutdown signal has come
Started ==
    /\ cacheDirInitialized = TRUE
    /\ cacheDirPromise = 1
    /\ mkdirs = [started |-> 1, pending |-> {}]
    /\ cleanupInterval = Interval(60, 0)
    /\ exited = FALSE

browserVars == <<browser, browserLaunchPromise, launches>>

\* no browser launched and no launch in progress
NoBrowser ==
    /\ browser = 0
    /\ browserLaunchPromise = 0
    /\ launches = [started |-> 0, pending |-> {}, connected |-> {}, closing |-> {}]

-----------------------------------------------------------------------------
(* Bounds                                                                  *)

MaxPathLen == 5     \* longest request path enumerated for validatePath
MaxHosts == 2       \* longest hosts list enumerated for getHostConfig
MaxTime == 2        \* the clock stops after this many samples
MaxCalls == 2       \* calls of the cache interface in one run

-----------------------------------------------------------------------------
(* Text helpers: String.prototype.startsWith / includes / slice            *)

Strs(alphabet, n) == UNION {[1..k -> alphabet] : k \in 0..n}

StartsWith(s, p) == Len(p) <= Len(s) /\ SubSeq(s, 1, Len(p)) = p

Includes(s, sub) ==
    \E i \in 1..(Len(s) - Len(sub) + 1) : SubSeq(s, i, i + Len(sub) - 1) = sub

IsPrefixOf(p, s) == StartsWith(s, p)

Last(s) == s[Len(s)]

RECURSIVE SplitAt(_, _)
SplitAt(s, sep) ==
    IF \A i \in 1..Len(s) : s[i] # sep
    THEN <<s>>
    ELSE LET i == CHOOSE k \in 1..Len(s) :
                     s[k] = sep /\ \A j \in 1..(k - 1) : s[j] # sep
         IN <<SubSeq(s, 1, i - 1)>> \o SplitAt(SubSeq(s, i + 1, Len(s)), sep)

RECURSIVE JoinWith(_, _)
JoinWith(segs, sep) ==
    IF segs = <<>> THEN <<>>
    ELSE IF Len(segs) = 1 THEN segs[1]
    ELSE segs[1] \o <<sep>> \o JoinWith(Tail(segs), sep)

-----------------------------------------------------------------------------
(* Node's posix path module, as validatePath and the router use it         *)

DotDot == <<".", ".">>

\* normalizeString: drop empty and "." segments, let ".." pop the previous
\* segment, and keep a leading ".." only when allowAboveRoot.
RECURSIVE NormalizeSegs(_, _, _)
NormalizeSegs(segs, acc, allowAboveRoot) ==
    IF segs = <<>> THEN acc
    ELSE LET s == Head(segs)
             acc2 == IF s = <<>> \/ s = <<".">> THEN acc
                     ELSE IF s = DotDot
                          THEN IF acc # <<>> /\ Last(acc) # DotDot
                               THEN SubSeq(acc, 1, Len(acc) - 1)
                               ELSE IF allowAboveRoot THEN Append(acc, DotDot)
                               ELSE acc
                     ELSE Append(acc, s)
         IN NormalizeSegs(Tail(segs), acc2, allowAboveRoot)

PathIsAbsolute(p) == p # <<>> /\ p[1] = "/"

\* path.normalize
PathNormalize(p) ==
    IF p = <<>> THEN <<".">>
    ELSE LET isAbs == p[1] = "/"
             trailing == Last(p) = "/"
             body == JoinWith(NormalizeSegs(SplitAt(p, "/"), <<>>, ~isAbs), "/")
         IN IF body = <<>>
            THEN IF isAbs THEN <<"/">>
                 ELSE IF trailing THEN <<".", "/">> ELSE <<".">>
            ELSE (IF isAbs THEN <<"/">> ELSE <<>>) \o body
                 \o (IF trailing THEN <<"/">> ELSE <<>>)

\* path.resolve(base, rel) for an absolute base: the right-most absolute
\* argument starts the result, which is then normalized without a trailing
\* separator.
PathResolve2(base, rel) ==
    LET joined == IF PathIsAbsolute(rel) THEN rel ELSE base \o <<"/">> \o rel
    IN <<"/">> \o JoinWith(NormalizeSegs(SplitAt(joined, "/"), <<>>, FALSE), "/")

PathResolve1(base) ==
    <<"/">> \o JoinWith(NormalizeSegs(SplitAt(base, "/"), <<>>, FALSE), "/")

\* path.join(a, b): normalize(a + "/" + b)
PathJoin(a, b) == PathNormalize(a \o <<"/">> \o b)

\* path.extname: the text from the last "." of the last path component,
\* empty when there is no dot, when the dot starts the component, or when
\* the component is "..".
PathExtname(p) ==
    LET nonSlash == {i \in 1..Len(p) : p[i] # "/"}
    IN IF nonSlash = {} THEN <<>>
       ELSE LET end == CHOOSE i \in nonSlash : \A j \in nonSlash : j <= i
                slashes == {i \in 1..end : p[i] = "/"}
                startPart == IF slashes = {} THEN 1
                             ELSE 1 + CHOOSE i \in slashes : \A j \in slashes : j <= i
                base == SubSeq(p, startPart, end)
                dots == {i \in 1..Len(base) : base[i] = "."}
            IN IF dots = {} THEN <<>>
               ELSE LET startDot == CHOOSE i \in dots : \A j \in dots : j <= i
                    IN IF startDot = 1 \/ base = DotDot THEN <<>>
                       ELSE SubSeq(base, startDot, Len(base))

Null == [ok |-> FALSE, val |-> <<>>]
Some(v) == [ok |-> TRUE, val |-> v]

\* A validatePath that trusts the final prefix test and forgets the ".." test.
ValidatePathNoDotDot(basePath, requestedPath) ==
    LET relativePath == IF StartsWith(requestedPath, <<"/">>)
                        THEN Tail(requestedPath) ELSE requestedPath
        normalizedPath == PathNormalize(relativePath)
        resolvedPath == PathResolve2(basePath, normalizedPath)
        resolvedBase == PathResolve1(basePath)
    IN IF PathIsAbsolute(normalizedPath) THEN Null
       ELSE IF ~StartsWith(resolvedPath, resolvedBase) THEN Null
       ELSE Some(resolvedPath)

\* validatePath (index.ts:92)
ValidatePath(basePath, requestedPath) ==
    LET relativePath == IF StartsWith(requestedPath, <<"/">>)
                        THEN Tail(requestedPath) ELSE requestedPath
        normalizedPath == PathNormalize(relativePath)
        resolvedPath == PathResolve2(basePath, normalizedPath)
        resolvedBase == PathResolve1(basePath)
    IN IF Includes(normalizedPath, DotDot) \/ PathIsAbsolute(normalizedPath)
       THEN Null
       ELSE IF ~StartsWith(resolvedPath, resolvedBase) THEN Null
       ELSE Some(resolvedPath)

\* isFilePath (index.ts:363)
IsFilePath(filePath) ==
    LET ext == PathExtname(filePath) IN ext # <<>> /\ ext # <<"/">>

-----------------------------------------------------------------------------
(* config.ts                                                               *)

\* String.prototype.toLowerCase on the tokens the model uses
LowerPairs ==
    { <<"Googlebot", "googlebot">>, <<"Slurp", "slurp">>,
      <<"DuckDuckBot", "duckduckbot">>, <<"Baiduspider", "baiduspider">>,
      <<"YandexBot", "yandexbot">>, <<"Applebot", "applebot">>,
      <<"Twitterbot", "twitterbot">>, <<"LinkedInBot", "linkedinbot">>,
      <<"Pinterestbot", "pinterestbot">>, <<"Slack", "slack">>,
      <<"WhatsApp", "whatsapp">>, <<"TelegramBot", "telegrambot">>,
      <<"vkShare", "vkshare">>, <<"GPTBot", "gptbot">>,
      <<"ChatGPT-User", "chatgpt-user">>, <<"Google-Extended", "google-extended">>,
      <<"ClaudeBot", "claudebot">>, <<"Claude-Web", "claude-web">>,
      <<"GrokBot", "grokbot">>, <<"PerplexityBot", "perplexitybot">>,
      <<"Amazonbot", "amazonbot">>, <<"CCBot", "ccbot">>,
      <<"YouBot", "youbot">>, <<"Neevabot", "neevabot">>,
      <<"RenderX", "renderx">>, <<"RENDERX", "renderx">>,
      <<"Mozilla", "mozilla">>, <<"Chrome", "chrome">> }

ToLowerToken(t) ==
    IF \E pr \in LowerPairs : pr[1] = t
    THEN (CHOOSE pr \in LowerPairs : pr[1] = t)[2]
    ELSE t

ToLowerCase(s) == [i \in 1..Len(s) |-> ToLowerToken(s[i])]

\* DEFAULT_BOTS (config.ts:11)
DEFAULT_BOTS ==
    << <<"Googlebot">>, <<"bingbot">>, <<"Slurp">>, <<"DuckDuckBot">>,
       <<"Baiduspider">>, <<"YandexBot">>, <<"Applebot">>,
       <<"facebookexternalhit">>, <<"Twitterbot">>, <<"LinkedInBot">>,
       <<"Pinterestbot">>, <<"Slack">>, <<"WhatsApp">>, <<"TelegramBot">>,
       <<"vkShare">>, <<"GPTBot">>, <<"ChatGPT-User">>, <<"Google-Extended">>,
       <<"ClaudeBot">>, <<"Claude-Web">>, <<"GrokBot">>,
       <<"meta-externalagent">>, <<"meta-externalfetcher">>,
       <<"PerplexityBot">>, <<"Amazonbot">>, <<"CCBot">>, <<"ia_archiver">>,
       <<"YouBot">>, <<"Neevabot">>, <<"headlessbot">> >>

Has(r, f) == f \in DOMAIN r

\* h.isActive ?? true
IsActiveOrDefault(h) == IF Has(h, "isActive") THEN h.isActive ELSE TRUE

WILDCARD_PLACEHOLDER == "__WILDCARD_PLACEHOLDER__"

\* the characters /[.+?^${}()|[\]\\]/ escapes (config.ts:144)
RegexSpecial == {".", "+", "?", "^", "$", "{", "}", "(", ")", "|", "[", "]", "\\"}

RECURSIVE Flatten(_)
Flatten(ss) == IF ss = <<>> THEN <<>> ELSE Head(ss) \o Flatten(Tail(ss))

\* pattern.replace(/\*/g, placeholder)
StarToPlaceholder(c) == IF c = "*" THEN <<WILDCARD_PLACEHOLDER>> ELSE <<c>>
\* .replace(/[.+?^${}()|[\]\\]/g, '\\$&')
EscapeSpecial(c) == IF c \in RegexSpecial THEN <<"\\", c>> ELSE <<c>>
\* .replace(new RegExp(placeholder, 'g'), '.*')
PlaceholderToDotStar(c) == IF c = WILDCARD_PLACEHOLDER THEN <<".", "*">> ELSE <<c>>

EscapedPattern(pattern) ==
    LET starred == Flatten([i \in 1..Len(pattern) |-> StarToPlaceholder(pattern[i])])
        escaped == Flatten([i \in 1..Len(starred) |-> EscapeSpecial(starred[i])])
    IN Flatten([i \in 1..Len(escaped) |-> PlaceholderToDotStar(escaped[i])])

\* new RegExp("^" + re + "$").test(s) for the regular expressions the
\* escaping can produce: \c is the character c, .* any run, . any character,
\* c* a run of c, any other character itself.
RECURSIVE RegexTest(_, _)
RegexTest(re, s) ==
    IF re = <<>> THEN s = <<>>
    ELSE IF re[1] = "\\" /\ Len(re) >= 2
    THEN s # <<>> /\ s[1] = re[2] /\ RegexTest(SubSeq(re, 3, Len(re)), Tail(s))
    ELSE IF Len(re) >= 2 /\ re[2] = "*"
    THEN \E k \in 0..Len(s) :
            /\ \A i \in 1..k : re[1] = "." \/ s[i] = re[1]
            /\ RegexTest(SubSeq(re, 3, Len(re)), SubSeq(s, k + 1, Len(s)))
    ELSE s # <<>> /\ (re[1] = "." \/ s[1] = re[1]) /\ RegexTest(Tail(re), Tail(s))

\* matchesGlobPattern (config.ts:128)
MatchesGlobPattern(pattern, hostname) ==
    \/ pattern = hostname
    \/ pattern = <<"*">>
    \/ RegexTest(EscapedPattern(pattern), hostname)

\* Array.prototype.find and the for-of loops that return at the first hit:
\* the least of the indices that satisfy the test, or 0
FirstOf(hits) ==
    IF hits = {} THEN 0 ELSE CHOOSE i \in hits : \A j \in hits : i <= j

\* A getHostConfig with a single pass: the first active entry that matches,
\* exactly or by glob.
GetHostConfigIndexOnePass(cfg, hostname) ==
    LET Match(h) == MatchesGlobPattern(h.host, hostname) /\ IsActiveOrDefault(h)
    IN FirstOf({i \in 1..Len(cfg.hosts) : Match(cfg.hosts[i])})

\* getHostConfig (config.ts:154), as the index of the returned entry in
\* config.hosts, 0 for null
GetHostConfigIndex(cfg, hostname) ==
    LET Exact(h) == h.host = hostname /\ IsActiveOrDefault(h)
        Glob(h) == MatchesGlobPattern(h.host, hostname) /\ IsActiveOrDefault(h)
        exactMatch == FirstOf({i \in 1..Len(cfg.hosts) : Exact(cfg.hosts[i])})
    IN IF exactMatch # 0 THEN exactMatch
       ELSE FirstOf({i \in 1..Len(cfg.hosts) : Glob(cfg.hosts[i])})

GetHostConfig(cfg, hostname) ==
    LET i == GetHostConfigIndex(cfg, hostname)
    IN IF i = 0 THEN Null ELSE Some(cfg.hosts[i])

\* what loadConfig (config.ts:81) yields for a config.json that sets only
\* hosts, with no environment variable set
LoadedConfig(hostList) ==
    [ port |-> 8080, parallelRenders |-> 10, bots |-> DEFAULT_BOTS,
      cacheCleanupInterval |-> 60, strategy |-> "smart-ssr", hosts |-> hostList,
      logs |-> "ssr", timeoutMs |-> 10000, maxConcurrency |-> 10 ]

\* the digits of parseInt(s, 10) and Number.prototype.toString()
DigitChars == <<"0", "1", "2", "3", "4", "5", "6", "7", "8", "9">>
IsDigit(c) == \E d \in 1..10 : DigitChars[d] = c
DigitValue(c) == (CHOOSE d \in 1..10 : DigitChars[d] = c) - 1
NaN == "NaN"

\* parseInt(s, 10): the number written by the leading digits of s, NaN when
\* s does not start with a digit
RECURSIVE ParseDigits(_, _)
ParseDigits(s, acc) ==
    IF s = <<>> \/ ~IsDigit(Head(s)) THEN acc
    ELSE ParseDigits(Tail(s), acc * 10 + DigitValue(Head(s)))
ParseInt(s) == IF s = <<>> \/ ~IsDigit(Head(s)) THEN NaN ELSE ParseDigits(s, 0)

\* n.toString() of a non-negative integer
RECURSIVE NumberToString(_)
NumberToString(n) ==
    IF n < 10 THEN <<DigitChars[n + 1]>>
    ELSE NumberToString(n \div 10) \o <<DigitChars[(n % 10) + 1]>>

\* a || b || c on strings: the first that is neither undefined nor empty
OrElse(a, b, c) == IF a # <<>> THEN a ELSE IF b # <<>> THEN b ELSE c

\* loadConfig (config.ts:81-116) for the content of config.json and the
\* environment; an absent field or variable is undefined
LoadConfig(fileConfig, env) ==
    LET Env(k) == IF Has(env, k) THEN env[k] ELSE <<>>
        FileStr(k) == IF Has(fileConfig, k) THEN NumberToString(fileConfig[k]) ELSE <<>>
        Word(k) == IF Has(fileConfig, k) THEN fileConfig[k] ELSE ""
        EnvWord(k) == IF Has(env, k) THEN env[k] ELSE ""
    IN [ port |-> ParseInt(OrElse(Env("PORT"), FileStr("port"), <<"8", "0", "8", "0">>)),
         parallelRenders |->
             ParseInt(OrElse(Env("MAX_CONCURRENCY"), FileStr("parallelRenders"),
                             <<"1", "0">>)),
         bots |-> IF Has(fileConfig, "bots") /\ Len(fileConfig.bots) > 0
                  THEN fileConfig.bots ELSE DEFAULT_BOTS,
         cacheCleanupInterval |->
             ParseInt(OrElse(Env("CACHE_CLEANUP_INTERVAL"),
                             FileStr("cacheCleanupInterval"), <<"6", "0">>)),
         strategy |-> IF EnvWord("STRATEGY") # "" THEN EnvWord("STRATEGY")
                      ELSE IF Word("strategy") # "" THEN Word("strategy")
                      ELSE "smart-ssr",
         hosts |-> IF Has(fileConfig, "hosts") THEN fileConfig.hosts ELSE <<>>,
         logs |-> IF EnvWord("LOGS") # "" THEN EnvWord("LOGS")
                  ELSE IF Word("logs") # "" THEN Word("logs")
                  ELSE "ssr",
         timeoutMs |-> ParseInt(OrElse(Env("TIMEOUT_MS"), <<>>,
                                       <<"1", "0", "0", "0", "0">>)),
         maxConcurrency |-> ParseInt(OrElse(Env("MAX_CONCURRENCY"), <<>>, <<"1", "0">>)) ]

\* the value of a field that was never assigned
Undefined == "undefined"

\* getEffectiveConfig (config.ts:169); a ?? b takes b when a is undefined
GetEffectiveConfig(cfg, hostname) ==
    LET hc == IF hostname # <<>> THEN GetHostConfig(cfg, hostname) ELSE Null
        Pick(f, g) == IF hc.ok /\ Has(hc.val, f) THEN hc.val[f] ELSE g
        Global(f, g) == IF Has(cfg, f) THEN cfg[f] ELSE g
        renderingStrategy == Pick("strategy", cfg.strategy)
    IN [ port |-> cfg.port,
         timeoutMs |-> Pick("timeoutMs", cfg.timeoutMs),
         cacheTtl |-> (IF cfg.cacheCleanupInterval # 0
                       THEN cfg.cacheCleanupInterval ELSE 60) * 60,
         botOnly |-> renderingStrategy \in {"smart-ssr", "csr"},
         maxConcurrency |-> Pick("parallelRenders", cfg.parallelRenders),
         bots |-> Pick("bots", cfg.bots),
         renderingStrategy |-> renderingStrategy,
         rootSelector |-> Pick("rootSelector", Global("rootSelector", Undefined)),
         clearCacheOnStartup |-> Global("clearCacheOnStartup", TRUE),
         htmlOptimizerOptions |->
             Pick("htmlOptimizerOptions", Global("htmlOptimizerOptions", Undefined)) ]

-----------------------------------------------------------------------------
(* The environment of the router: the files under ./hosts, and the request *)
(* headers and paths enumerated.                                           *)

Cwd == <<"/", "srv">>
HostsDir == <<".", "/", "hosts">>
IndexHtml == <<"index", ".", "html">>

\* path.join(process.cwd(), './hosts', source) (index.ts:500, 630)
SourcePathOf(h) == PathNormalize(Cwd \o <<"/">> \o HostsDir \o <<"/">> \o h.source)

HostsRoot == <<"/", "srv", "/", "hosts">>
Under(source, rel) == HostsRoot \o <<"/">> \o source \o rel

\* regular files on disk
FsFiles ==
    { Under(<<"a">>, <<"/", "index", ".", "html">>),
      Under(<<"a">>, <<"/", "f", ".", "j">>),
      Under(<<"a">>, <<"/", "r">>),
      Under(<<"a">>, <<"/", "d", "/", "index", ".", "html">>),
      Under(<<"a", "b">>, <<"/", "index", ".", "html">>),
      Under(<<"a", "b">>, <<"/", "s", ".", "j">>),
      Under(<<"c">>, <<"/", "index", ".", "html">>),
      Under(<<"e">>, <<"/", "g", ".", "j">>),
      Under(<<"i">>, <<"/", "index", ".", "html">>),
      Under(<<"i">>, <<"/", "t", ".", "j">>) }

\* directories on disk
FsDirs ==
    { HostsRoot, Under(<<"a">>, <<>>), Under(<<"a">>, <<"/", "d">>),
      Under(<<"a", "b">>, <<>>), Under(<<"c">>, <<>>), Under(<<"e">>, <<>>),
      Under(<<"i">>, <<>>) }

\* fs.existsSync, fs.statSync(..).isFile(), .isDirectory()
ExistsSync(p) == p \in FsFiles \/ p \in FsDirs
IsFile(p) == p \in FsFiles
IsDirectory(p) == p \in FsDirs

\* the hosts of the configuration the router runs with: a glob host under
\* ssr, an exact host under the global smart-ssr with one render slot, a csr
\* host, an inactive host and a host whose directory has no index.html
RouterHosts ==
    << [host |-> <<"*", ".", "x">>, source |-> <<"a", "b">>, strategy |-> "ssr"],
       [host |-> <<"a", ".", "x">>, source |-> <<"a">>, parallelRenders |-> 1],
       [host |-> <<"c", ".", "x">>, source |-> <<"c">>, strategy |-> "csr",
        isActive |-> TRUE],
       [host |-> <<"i", ".", "y">>, source |-> <<"i">>, isActive |-> FALSE],
       [host |-> <<"e", ".", "y">>, source |-> <<"e">>] >>

RouterConfig ==
    [LoadedConfig(RouterHosts) EXCEPT !.parallelRenders = 2,
                                      !.cacheCleanupInterval = 1]

Https(hostname) == <<"https://">> \o hostname

ReqOrigins ==
    { <<>>, <<"a", ".", "x">>,
      Https(<<"a", ".", "x">>), Https(<<"b", ".", "x">>), Https(<<"c", ".", "x">>),
      Https(<<"i", ".", "y">>), Https(<<"e", ".", "y">>), Https(<<"u", ".", "y">>) }

ReqHosts == { <<>>, <<"a", ".", "x", ":", "8080">>, <<"u", ".", "y">> }

ReqUserAgents ==
    { <<"Mozilla">>, <<"Googlebot">>, <<"RenderX">>, <<"Googlebot", "RENDERX">> }

ReqInternal == { <<>>, <<"true">> }

ReqPaths ==
    { <<"/">>, <<"/", "p">>, <<"/", "f", ".", "j">>, <<"/", "n", ".", "j">>,
      <<"/", "s", ".", "j">>, <<"/", "d">>, <<"/", "r">>, <<"/", "t", ".", "j">>,
      <<"/", ".", ".", "/", "a", "b", "/", "s", ".", "j">>,
      <<"/", ".", ".", "/", "p">> }

\* requests without a query string
Requests ==
    [ origin : ReqOrigins, host : ReqHosts, userAgent : ReqUserAgents,
      internal : ReqInternal, path : ReqPaths, query : {<<>>} ]

\* GET /render?url=https://a.x/p, as a caller of the /render endpoint sends
\* it: from any place, with or without an Origin of its own
RenderQuery == <<"?", "url", "=">> \o <<"https://", "a", ".", "x", "/", "p">>
RenderRequests ==
    [ origin : { <<>>, <<"https://", "a", ".", "x">>, <<"https://", "u", ".", "y">> },
      host : ReqHosts, userAgent : { <<"Mozilla">>, <<"Googlebot">> },
      internal : {<<>>}, path : {<<"/", "render">>}, query : {RenderQuery} ]

NoReq == [ origin |-> <<>>, host |-> <<>>, userAgent |-> <<>>,
           internal |-> <<>>, path |-> <<>>, query |-> <<>> ]

\* req.originalUrl: the path and the query string
OriginalUrl(q) == q.path \o q.query

-----------------------------------------------------------------------------
(* index.ts: classification and the routing decision                       *)

REQUEST_TIMEOUT_MS == 30000
BROWSER_CLEANUP_TIMEOUT_MS == 5000

\* new URL(s) for an origin: a scheme, then the hostname up to a port or path
ParseUrl(s) ==
    IF Len(s) >= 2 /\ s[1] \in {"http://", "https://"} /\ s[2] \notin {":", "/"}
    THEN Some([protocol |-> s[1],
               hostname |-> Head(SplitAt(Head(SplitAt(Tail(s), "/")), ":"))])
    ELSE Null

\* req.headers.host?.split(':')[0] || ''
HostHeaderName(q) == Head(SplitAt(q.host, ":"))

\* An isValidOrigin that accepts every well-formed URL.
IsValidOriginAnyUrl(cfg, origin) == ParseUrl(origin).ok

\* isValidOrigin (index.ts:123)
IsValidOrigin(cfg, origin) ==
    LET u == ParseUrl(origin) IN u.ok /\ GetHostConfig(cfg, u.val.hostname).ok

\* userAgent.toLowerCase().includes('renderx') (index.ts:469)
IsRenderXRequest(q) == Includes(ToLowerCase(q.userAgent), <<"renderx">>)

\* req.headers['x-renderx-internal'] === 'true' (index.ts:470)
IsInternalRender(q) == q.internal = <<"true">>

\* effectiveConfig.bots.some(...) (index.ts:625)
IsBot(eff, q) ==
    \E i \in 1..Len(eff.bots) :
        Includes(ToLowerCase(q.userAgent), ToLowerCase(eff.bots[i]))

\* A shouldRender that renders only for bots under ssr too.
ShouldRenderBotsOnly(strategy, isBot, isRenderXRequest, isDirectFile, isInternalRender) ==
    IF isInternalRender THEN FALSE
    ELSE IF isRenderXRequest THEN FALSE
    ELSE IF isDirectFile THEN FALSE
    ELSE IF strategy = "csr" THEN FALSE
    ELSE isBot

\* A shouldRender that forgets the two loop guards.
ShouldRenderNoLoopGuard(strategy, isBot, isRenderXRequest, isDirectFile, isInternalRender) ==
    IF isDirectFile THEN FALSE
    ELSE IF strategy = "csr" THEN FALSE
    ELSE IF strategy = "ssr" THEN TRUE
    ELSE isBot

\* shouldRender (index.ts:371)
ShouldRender(strategy, isBot, isRenderXRequest, isDirectFile, isInternalRender) ==
    IF isInternalRender THEN FALSE
    ELSE IF isRenderXRequest THEN FALSE
    ELSE IF isDirectFile THEN FALSE
    ELSE IF strategy = "csr" THEN FALSE
    ELSE IF strategy = "ssr" THEN TRUE
    ELSE isBot

NoEff == [ maxConcurrency |-> 0, cacheTtl |-> 0, timeoutMs |-> 0, strategy |-> "none" ]

\* the outcomes of routing: res.sendFile(file), sendError(status), next(), or
\* a call of renderPage with res.sendFile(file) as its fallback
Decision(kind, status, file, cacheKey, eff) ==
    [ kind |-> kind, status |-> status, file |-> file, cacheKey |-> cacheKey,
      eff |-> eff ]
SendFile(file) == Decision("file", 200, file, <<>>, NoEff)
SendError(status) == Decision("error", status, <<>>, <<>>, NoEff)
CallNext == Decision("next", 404, <<>>, <<>>, NoEff)
RenderPage(cacheKey, indexPath, e) ==
    Decision("render", 200, indexPath, cacheKey,
             [ maxConcurrency |-> e.maxConcurrency, cacheTtl |-> e.cacheTtl,
               timeoutMs |-> e.timeoutMs, strategy |-> e.renderingStrategy ])

\* the file the existsSync / statSync cascade serves for reqPath under
\* sourcePath (index.ts:501-515, 660-674): the file itself, or the index.html
\* of a directory; Null when there is none
DirectFile(sourcePath, reqPath) ==
    LET v == ValidatePath(sourcePath, reqPath)
    IN IF v.ok /\ ExistsSync(v.val)
       THEN IF IsFile(v.val) THEN Some(v.val)
            ELSE IF IsDirectory(v.val) /\ ExistsSync(PathJoin(v.val, IndexHtml))
                 THEN Some(PathJoin(v.val, IndexHtml))
                 ELSE Null
       ELSE Null

\* A lookup of a regular file that joins the path without validating it.
PlainFileUnvalidated(sourcePath, reqPath) ==
    LET v == PathJoin(sourcePath, reqPath)
    IN IF ExistsSync(v) /\ IsFile(v) THEN Some(v) ELSE Null

\* only a regular file (index.ts:571-575)
PlainFile(sourcePath, reqPath) ==
    LET v == ValidatePath(sourcePath, reqPath)
    IN IF v.ok /\ ExistsSync(v.val) /\ IsFile(v.val) THEN Some(v.val) ELSE Null

\* An internal branch that looks through the hosts in configuration order
\* only, whatever host the request names.
RouteInternalConfigOrder(cfg, q) ==
    LET Hit(h) == IsActiveOrDefault(h) /\ DirectFile(SourcePathOf(h), q.path).ok
        hit == FirstOf({i \in 1..Len(cfg.hosts) : Hit(cfg.hosts[i])})
        AnyIndex(h) == /\ IsActiveOrDefault(h)
                       /\ ExistsSync(PathJoin(SourcePathOf(h), IndexHtml))
        anyIndex == FirstOf({i \in 1..Len(cfg.hosts) : AnyIndex(cfg.hosts[i])})
    IN IF hit # 0
       THEN SendFile(DirectFile(SourcePathOf(cfg.hosts[hit]), q.path).val)
       ELSE IF ~IsFilePath(q.path) /\ anyIndex # 0
            THEN SendFile(PathJoin(SourcePathOf(cfg.hosts[anyIndex]), IndexHtml))
       ELSE SendError(404)

\* the internal render branch (index.ts:476-562)
RouteInternal(cfg, q) ==
    LET isFileRequest == IsFilePath(q.path)
        byOrigin == IF q.origin # <<>> /\ ParseUrl(q.origin).ok
                    THEN GetHostConfig(cfg, ParseUrl(q.origin).val.hostname)
                    ELSE Null
        target == IF ~byOrigin.ok /\ HostHeaderName(q) # <<>>
                  THEN GetHostConfig(cfg, HostHeaderName(q))
                  ELSE byOrigin
        useTarget == target.ok /\ ~(Has(target.val, "isActive") /\ target.val.isActive = FALSE)
        tdirect == IF useTarget THEN DirectFile(SourcePathOf(target.val), q.path) ELSE Null
        tindex == IF useTarget THEN PathJoin(SourcePathOf(target.val), IndexHtml) ELSE <<>>
        Other(h) == /\ ~(Has(h, "isActive") /\ h.isActive = FALSE)
                    /\ ~(target.ok /\ h.source = target.val.source)
        OtherHit(h) == Other(h) /\ DirectFile(SourcePathOf(h), q.path).ok
        other == FirstOf({i \in 1..Len(cfg.hosts) : OtherHit(cfg.hosts[i])})
        AnyIndex(h) == /\ ~(Has(h, "isActive") /\ h.isActive = FALSE)
                       /\ ExistsSync(PathJoin(SourcePathOf(h), IndexHtml))
        anyIndex == FirstOf({i \in 1..Len(cfg.hosts) : AnyIndex(cfg.hosts[i])})
    IN IF tdirect.ok THEN SendFile(tdirect.val)
       ELSE IF useTarget /\ ~isFileRequest /\ ExistsSync(tindex) THEN SendFile(tindex)
       ELSE IF other # 0
            THEN SendFile(DirectFile(SourcePathOf(cfg.hosts[other]), q.path).val)
       ELSE IF ~isFileRequest /\ anyIndex # 0
            THEN SendFile(PathJoin(SourcePathOf(cfg.hosts[anyIndex]), IndexHtml))
       ELSE SendError(404)

\* the main routing middleware after the internal branch (index.ts:564-699)
RouteExternal(cfg, q) ==
    LET isFileRequest == IsFilePath(q.path)
        AnyHit(h) == /\ ~(Has(h, "isActive") /\ h.isActive = FALSE)
                     /\ PlainFile(SourcePathOf(h), q.path).ok
        anyHost == IF isFileRequest /\ q.origin = <<>>
                   THEN FirstOf({i \in 1..Len(cfg.hosts) : AnyHit(cfg.hosts[i])})
                   ELSE 0
        originUrl == ParseUrl(q.origin)
        originHostname == IF q.origin # <<>> THEN originUrl.val.hostname
                          ELSE HostHeaderName(q)
        hc == GetHostConfig(cfg, originHostname)
        eff == GetEffectiveConfig(cfg, originHostname)
        sourcePath == SourcePathOf(hc.val)
        indexPath == PathJoin(sourcePath, IndexHtml)
        cacheKey == IF q.origin # <<>> THEN q.origin \o OriginalUrl(q)
                    ELSE <<"http://">> \o originHostname \o OriginalUrl(q)
        direct == DirectFile(sourcePath, q.path)
        render(isDirectFile) ==
            ShouldRender(eff.renderingStrategy, IsBot(eff, q), IsRenderXRequest(q),
                         isDirectFile, IsInternalRender(q))
    IN IF anyHost # 0
       THEN SendFile(PlainFile(SourcePathOf(cfg.hosts[anyHost]), q.path).val)
       ELSE IF q.origin # <<>> /\ ~originUrl.ok THEN SendError(400)
       ELSE IF q.origin # <<>> /\ ~IsValidOrigin(cfg, q.origin) THEN SendError(403)
       ELSE IF q.origin = <<>> /\ originHostname = <<>> THEN SendError(400)
       ELSE IF ~hc.ok THEN (IF q.origin = <<>> THEN SendError(403) ELSE CallNext)
       ELSE IF Has(hc.val, "isActive") /\ hc.val.isActive = FALSE THEN SendError(503)
       ELSE IF q.path = <<"/">>
            THEN IF ExistsSync(indexPath)
                 THEN IF render(FALSE) THEN RenderPage(cacheKey, indexPath, eff)
                      ELSE SendFile(indexPath)
                 ELSE SendError(404)
       ELSE IF direct.ok THEN SendFile(direct.val)
       ELSE IF ExistsSync(indexPath)
            THEN IF render(IsFilePath(q.path)) THEN RenderPage(cacheKey, indexPath, eff)
                 ELSE SendFile(indexPath)
       ELSE SendError(404)

\* the main routing middleware (index.ts:465)
Route(cfg, q) ==
    IF IsInternalRender(q) THEN RouteInternal(cfg, q) ELSE RouteExternal(cfg, q)

-----------------------------------------------------------------------------
(* Calls in flight. A slot holds one call of the cache interface ("api") or *)
(* one HTTP request in the main routing middleware ("http"), at the await  *)
(* it has reached.                                                         *)

MaxReq == 2         \* HTTP requests in flight at once

Slots == 1..MaxReq

NoResp == [ status |-> 0, kind |-> "none", body |-> <<>>, html |-> "", cache |-> "none" ]
FileResp(file) == [ status |-> 200, kind |-> "file", body |-> file, html |-> "", cache |-> "none" ]
ErrorResp(status) == [ status |-> status, kind |-> "error", body |-> <<>>, html |-> "", cache |-> "none" ]
HtmlResp(html, cache) == [ status |-> 200, kind |-> "html", body |-> <<>>, html |-> html, cache |-> cache ]

IdleProc ==
    [ pc |-> "idle", kind |-> "none", op |-> "none",
      url |-> <<>>, device |-> <<>>, html |-> "", ttl |-> 0, expiresAt |-> 0,
      pending |-> {}, result |-> Null,
      req |-> NoReq, dec |-> SendError(0), resp |-> NoResp,
      timer |-> "none", start |-> 0, renderErr |-> "none",
      cacheReads |-> 0, cacheWrites |-> 0, renderCalls |-> 0, admitted |-> 0,
      released |-> 0, alone |-> TRUE, prior |-> {},
      before |-> [html |-> << >>, meta |-> << >>],
      removed |-> 0, errors |-> 0, awaits |-> 0,
      cleanupTimer |-> "none", cleanupDue |-> 0,
      budgets |-> <<>>, timedOut |-> {}, tried |-> 0, thrown |-> <<>>,
      args |-> [intervalMinutes |-> 0, clearOnStartup |-> FALSE], cleanups |-> 0,
      faults |-> {}, orphan |-> "none", late |-> {} ]

\* res.headersSent: the timeout middleware has already answered
HeadersSent(rec) == rec.resp.kind # "none"

\* A reply that leaves the timeout armed.
ReplyKeepsTimer(rec, resp) ==
    IF HeadersSent(rec)
    THEN [rec EXCEPT !.pc = "done", !.pending = {}]
    ELSE [rec EXCEPT !.pc = "done", !.pending = {}, !.resp = resp]

\* what a handler goes on to send once the headers are sent: res.setHeader
\* for a fresh render throws inside renderPage's try (index.ts:451-453), the
\* catch returns false and the router goes on to res.sendFile (index.ts:652,
\* 696); the other sends are the last statement of their path
LateSends(resp) ==
    IF resp.kind = "html" /\ resp.cache = "miss" THEN {"html", "file"}
    ELSE {resp.kind}

\* a handler's res.send / res.sendFile / sendError: it answers and, through
\* the res.end override (index.ts:177), clears the timeout; once headers are
\* sent it throws and the response stays as it is
Reply(rec, resp) ==
    IF HeadersSent(rec)
    THEN [rec EXCEPT !.pc = "done", !.pending = {}, !.late = @ \cup LateSends(resp)]
    ELSE [rec EXCEPT !.pc = "done", !.pending = {}, !.resp = resp, !.timer = "cleared"]

\* renderPage after cache.get (index.ts:425-435): a truthy result is sent,
\* anything else goes on to render(); a direct call of cache.get returns
AfterGet(rec, v) ==
    IF rec.kind = "api"
    THEN [rec EXCEPT !.pc = "done", !.pending = {}, !.result = v]
    ELSE IF v.ok /\ v.val # ""
         THEN Reply([rec EXCEPT !.result = v], HtmlResp(v.val, "hit"))
         ELSE [rec EXCEPT !.pc = "r_admit", !.pending = {}, !.result = v,
                          !.renderCalls = @ + 1]

\* renderPage after cache.set (index.ts:449-454)
AfterSet(rec, ok) ==
    IF rec.kind = "api"
    THEN [rec EXCEPT !.pc = "done", !.pending = {}, !.result = Some(ok)]
    ELSE Reply(rec, HtmlResp(rec.html, "miss"))

\* A renderPage that stores whatever a render returns, empty or not.
AfterRenderStoresEmpty(rec, t) ==
    IF rec.renderErr # "none"
    THEN Reply(rec, FileResp(rec.dec.file))
    ELSE [rec EXCEPT !.pc = "set_write", !.op = "set",
                     !.ttl = rec.dec.eff.cacheTtl,
                     !.expiresAt = t + rec.dec.eff.cacheTtl * 1000,
                     !.pending = {"html", "meta"}, !.cacheWrites = @ + 1]

\* renderPage after render() (index.ts:448-461) and the router's fallback
\* (index.ts:652, 696): a thrown error or an empty result falls back to
\* res.sendFile(indexPath), a result starts cache.set
AfterRender(rec, t) ==
    IF rec.renderErr # "none" \/ rec.html = ""
    THEN Reply(rec, FileResp(rec.dec.file))
    ELSE [rec EXCEPT !.pc = "set_write", !.op = "set",
                     !.ttl = rec.dec.eff.cacheTtl,
                     !.expiresAt = t + rec.dec.eff.cacheTtl * 1000,
                     !.pending = {"html", "meta"}, !.cacheWrites = @ + 1]

-----------------------------------------------------------------------------
(* cache.ts                                                                *)

\* getCacheKey (cache.ts:110): the digest of "{deviceType}:{url}", kept as
\* the digested text (SHA-256 taken as injective)
GetCacheKey(url, deviceType) == deviceType \o <<":">> \o url

\* An isExpired that treats the expiry instant itself as expired.
IsExpiredAtInstant(metadata, t) == t >= metadata.expiresAt

\* isExpired (cache.ts:126); a comparison with an absent expiresAt is false
IsExpired(metadata, t) == Has(metadata, "expiresAt") /\ t > metadata.expiresAt

\* the content of a metadata file that JSON.parse rejects
Corrupt == [text |-> "{"]
Parses(content) == content # Corrupt

Remove(f, k) == [d \in (DOMAIN f) \ {k} |-> f[d]]
Write(f, k, v) == [d \in (DOMAIN f) \cup {k} |-> IF d = k THEN v ELSE f[d]]

KeyOf(rec) == GetCacheKey(rec.url, rec.device)

cacheVars == <<htmlFile, metaFile>>

\* A get that goes on to the HTML file when the metadata does not parse.
GetReadMetaUnparsed(p) ==
    LET rec == procs[p]
        k == KeyOf(rec)
    IN /\ rec.pc = "get_meta"
       /\ procs' = [procs EXCEPT ![p] =
             IF k \notin DOMAIN metaFile THEN AfterGet(rec, Null)
             ELSE IF IsExpired(metaFile[k], now)
                  THEN [rec EXCEPT !.pc = "get_unlink", !.pending = {"html", "meta"}]
                  ELSE [rec EXCEPT !.pc = "get_html"]]
       /\ UNCHANGED <<lifeVars, browserVars, call, ret, config, now, htmlFile, metaFile, activeRequests, log, nCalls>>

\* cache.get up to the metadata read and the expiry test (cache.ts:147-172):
\* a metadata file that is missing or does not parse is a miss
GetReadMeta(p) ==
    LET rec == procs[p]
        k == KeyOf(rec)
    IN /\ rec.pc = "get_meta"
       /\ procs' = [procs EXCEPT ![p] =
             IF k \notin DOMAIN metaFile THEN AfterGet(rec, Null)
             ELSE IF ~Parses(metaFile[k]) THEN AfterGet(rec, Null)
             ELSE IF IsExpired(metaFile[k], now)
                  THEN [rec EXCEPT !.pc = "get_unlink", !.pending = {"html", "meta"}]
                  ELSE [rec EXCEPT !.pc = "get_html"]]
       /\ UNCHANGED <<lifeVars, browserVars, call, ret, config, now, htmlFile, metaFile, activeRequests, log, nCalls>>

\* A get that reports the miss of an expired entry and leaves its files.
GetUnlinkSkipped(p, f) ==
    LET rec == procs[p]
        left == rec.pending \ {f}
    IN /\ rec.pc = "get_unlink"
       /\ f \in rec.pending
       /\ UNCHANGED <<htmlFile, metaFile>>
       /\ procs' = [procs EXCEPT ![p] =
             IF left = {} THEN AfterGet(rec, Null) ELSE [rec EXCEPT !.pending = left]]
       /\ UNCHANGED <<lifeVars, browserVars, call, ret, config, now, activeRequests, log, nCalls>>

\* the two unlinks of an expired entry, completing in either order
\* (cache.ts:167); get returns null after both
GetUnlink(p, f) ==
    LET rec == procs[p]
        k == KeyOf(rec)
        left == rec.pending \ {f}
    IN /\ rec.pc = "get_unlink"
       /\ f \in rec.pending
       /\ htmlFile' = IF f = "html" THEN Remove(htmlFile, k) ELSE htmlFile
       /\ metaFile' = IF f = "meta" THEN Remove(metaFile, k) ELSE metaFile
       /\ procs' = [procs EXCEPT ![p] =
             IF left = {} THEN AfterGet(rec, Null) ELSE [rec EXCEPT !.pending = left]]
       /\ UNCHANGED <<lifeVars, browserVars, call, ret, config, now, activeRequests, log, nCalls>>

\* the read of the HTML file (cache.ts:175-185)
GetReadHtml(p) ==
    LET rec == procs[p]
        k == KeyOf(rec)
    IN /\ rec.pc = "get_html"
       /\ procs' = [procs EXCEPT ![p] =
             IF k \in DOMAIN htmlFile THEN AfterGet(rec, Some(htmlFile[k]))
             ELSE [rec EXCEPT !.pc = "get_heal"]]
       /\ UNCHANGED <<lifeVars, browserVars, call, ret, config, now, htmlFile, metaFile, activeRequests, log, nCalls>>

\* the unlink of a dangling metadata file (cache.ts:183)
GetHeal(p) ==
    LET rec == procs[p]
        k == KeyOf(rec)
    IN /\ rec.pc = "get_heal"
       /\ metaFile' = Remove(metaFile, k)
       /\ procs' = [procs EXCEPT ![p] = AfterGet(rec, Null)]
       /\ UNCHANGED <<lifeVars, browserVars, call, ret, config, now, htmlFile, activeRequests, log, nCalls>>

\* A set that writes the metadata under the digest of the url alone.
SetWriteUrlKeyed(p, f) ==
    LET rec == procs[p]
        k == KeyOf(rec)
        left == rec.pending \ {f}
    IN /\ rec.pc = "set_write"
       /\ f \in rec.pending
       /\ htmlFile' = IF f = "html" THEN Write(htmlFile, k, rec.html) ELSE htmlFile
       /\ metaFile' = IF f = "meta"
                      THEN Write(metaFile, GetCacheKey(rec.url, <<>>),
                                 [expiresAt |-> rec.expiresAt, url |-> rec.url,
                                  deviceType |-> rec.device])
                      ELSE metaFile
       /\ procs' = [procs EXCEPT ![p] =
             IF left = {} THEN AfterSet(rec, TRUE) ELSE [rec EXCEPT !.pending = left]]
       /\ UNCHANGED <<lifeVars, browserVars, call, ret, config, now, activeRequests, log, nCalls>>

\* the two writes of cache.set, completing in either order (cache.ts:216);
\* set returns true after both
SetWrite(p, f) ==
    LET rec == procs[p]
        k == KeyOf(rec)
        left == rec.pending \ {f}
    IN /\ rec.pc = "set_write"
       /\ f \in rec.pending
       /\ htmlFile' = IF f = "html" THEN Write(htmlFile, k, rec.html) ELSE htmlFile
       /\ metaFile' = IF f = "meta"
                      THEN Write(metaFile, k,
                                 [expiresAt |-> rec.expiresAt, url |-> rec.url,
                                  deviceType |-> rec.device])
                      ELSE metaFile
       /\ procs' = [procs EXCEPT ![p] =
             IF left = {} THEN AfterSet(rec, TRUE) ELSE [rec EXCEPT !.pending = left]]
       /\ UNCHANGED <<lifeVars, browserVars, call, ret, config, now, activeRequests, log, nCalls>>

\* An invalidate that unlinks the files named by the digest of the url alone.
InvalidateUnlinkUrlKeyed(p, f) ==
    LET rec == procs[p]
        k == GetCacheKey(rec.url, <<>>)
        left == rec.pending \ {f}
    IN /\ rec.pc = "inv_unlink"
       /\ f \in rec.pending
       /\ htmlFile' = IF f = "html" THEN Remove(htmlFile, k) ELSE htmlFile
       /\ metaFile' = IF f = "meta" THEN Remove(metaFile, k) ELSE metaFile
       /\ procs' = [procs EXCEPT ![p] =
             IF left = {} THEN [rec EXCEPT !.pc = "done", !.pending = {},
                                           !.result = Some(TRUE)]
             ELSE [rec EXCEPT !.pending = left]]
       /\ UNCHANGED <<lifeVars, browserVars, call, ret, config, now, activeRequests, log, nCalls>>

\* the two unlinks of cache.invalidate, completing in either order
\* (cache.ts:233); a file that is not there is ignored, and invalidate
\* returns true after both
InvalidateUnlink(p, f) ==
    LET rec == procs[p]
        k == KeyOf(rec)
        left == rec.pending \ {f}
    IN /\ rec.pc = "inv_unlink"
       /\ f \in rec.pending
       /\ htmlFile' = IF f = "html" THEN Remove(htmlFile, k) ELSE htmlFile
       /\ metaFile' = IF f = "meta" THEN Remove(metaFile, k) ELSE metaFile
       /\ procs' = [procs EXCEPT ![p] =
             IF left = {} THEN [rec EXCEPT !.pc = "done", !.pending = {},
                                           !.result = Some(TRUE)]
             ELSE [rec EXCEPT !.pending = left]]
       /\ UNCHANGED <<lifeVars, browserVars, call, ret, config, now, activeRequests, log, nCalls>>

\* the files of the cache directory, as readdir lists them: {digest}.html
\* and {digest}.html.meta
DirFiles ==
    {<<"html", k>> : k \in DOMAIN htmlFile} \cup {<<"meta", k>> : k \in DOMAIN metaFile}

\* A clear whose filter keeps the .html files only.
ClearReaddirHtmlOnly(p) ==
    LET rec == procs[p]
        cacheFiles == {f \in DirFiles : f[1] = "html"}
    IN /\ rec.pc = "clear_readdir"
       /\ procs' = [procs EXCEPT ![p] =
             IF cacheFiles = {}
             THEN [rec EXCEPT !.pc = "done", !.pending = {}, !.result = Some(TRUE)]
             ELSE [rec EXCEPT !.pc = "clear_unlink", !.pending = cacheFiles]]
       /\ UNCHANGED <<lifeVars, browserVars, call, ret, config, now, htmlFile, metaFile, activeRequests, log, nCalls>>

\* cache.clear: readdir and the filter on .html and .meta (cache.ts:245-246)
ClearReaddir(p) ==
    LET rec == procs[p]
        cacheFiles == {f \in DirFiles : f[1] \in {"html", "meta"}}
    IN /\ rec.pc = "clear_readdir"
       /\ procs' = [procs EXCEPT ![p] =
             IF cacheFiles = {}
             THEN [rec EXCEPT !.pc = "done", !.pending = {}, !.result = Some(TRUE)]
             ELSE [rec EXCEPT !.pc = "clear_unlink", !.pending = cacheFiles]]
       /\ UNCHANGED <<lifeVars, browserVars, call, ret, config, now, htmlFile, metaFile, activeRequests, log, nCalls>>

\* cache.clear: the unlinks of the listed files, completing in any order
\* (cache.ts:248); clear returns true after all of them
ClearUnlink(p, f) ==
    LET rec == procs[p]
        left == rec.pending \ {f}
    IN /\ rec.pc = "clear_unlink"
       /\ f \in rec.pending
       /\ htmlFile' = IF f[1] = "html" THEN Remove(htmlFile, f[2]) ELSE htmlFile
       /\ metaFile' = IF f[1] = "meta" THEN Remove(metaFile, f[2]) ELSE metaFile
       /\ procs' = [procs EXCEPT ![p] =
             IF left = {} THEN [rec EXCEPT !.pc = "done", !.pending = {},
                                           !.result = Some(TRUE)]
             ELSE [rec EXCEPT !.pending = left]]
       /\ UNCHANGED <<lifeVars, browserVars, call, ret, config, now, activeRequests, log, nCalls>>

\* cache.cleanup: readdir and the filter on .meta (cache.ts:265-266); one
\* batch holds every metadata file of the directories enumerated
CleanupReaddir(p) ==
    LET rec == procs[p]
        metaFiles == {<<"read", k>> : k \in DOMAIN metaFile}
    IN /\ rec.pc = "cleanup_readdir"
       /\ procs' = [procs EXCEPT ![p] =
             IF metaFiles = {}
             THEN [rec EXCEPT !.pc = "done", !.pending = {},
                              !.result = Some([removed |-> 0, errors |-> 0])]
             ELSE [rec EXCEPT !.pc = "cleanup_files", !.pending = metaFiles]]
       /\ UNCHANGED <<lifeVars, browserVars, call, ret, config, now, htmlFile, metaFile, activeRequests, log, nCalls>>

\* what cleanup returns once no step of any processFile is left
CleanupStep(rec, left, removed, errors) ==
    IF left = {}
    THEN [rec EXCEPT !.pc = "done", !.pending = {}, !.removed = removed,
                     !.errors = errors,
                     !.result = Some([removed |-> removed, errors |-> errors])]
    ELSE [rec EXCEPT !.pending = left, !.removed = removed, !.errors = errors]

\* A processFile that unlinks the metadata file of an expired entry only.
CleanupFileMetaOnly(p, f) ==
    LET rec == procs[p]
        k == f[2]
        left == rec.pending \ {f}
    IN /\ rec.pc = "cleanup_files"
       /\ f \in rec.pending
       /\ IF f[1] = "read"
          THEN /\ UNCHANGED <<htmlFile, metaFile>>
               /\ procs' = [procs EXCEPT ![p] =
                     IF k \notin DOMAIN metaFile \/ ~Parses(metaFile[k])
                     THEN CleanupStep(rec, left, rec.removed, rec.errors + 1)
                     ELSE IF IsExpired(metaFile[k], now)
                     THEN CleanupStep(rec, left \cup {<<"meta", k>>},
                                      rec.removed, rec.errors)
                     ELSE CleanupStep(rec, left, rec.removed, rec.errors)]
          ELSE /\ htmlFile' = IF f[1] = "html" THEN Remove(htmlFile, k) ELSE htmlFile
               /\ metaFile' = IF f[1] = "meta" THEN Remove(metaFile, k) ELSE metaFile
               /\ procs' = [procs EXCEPT ![p] =
                     IF \E g \in left : g[2] = k
                     THEN CleanupStep(rec, left, rec.removed, rec.errors)
                     ELSE CleanupStep(rec, left, rec.removed + 1, rec.errors)]
       /\ UNCHANGED <<lifeVars, browserVars, call, ret, config, now, activeRequests, log, nCalls>>

\* one step of a processFile of cache.cleanup (cache.ts:269-288), the files
\* of a batch being processed concurrently: the read and parse of a metadata
\* file, which counts an error when it fails and starts the two unlinks when
\* the entry is expired, or one of the two unlinks, the second of which
\* counts the entry as removed
CleanupFile(p, f) ==
    LET rec == procs[p]
        k == f[2]
        left == rec.pending \ {f}
    IN /\ rec.pc = "cleanup_files"
       /\ f \in rec.pending
       /\ IF f[1] = "read"
          THEN /\ UNCHANGED <<htmlFile, metaFile>>
               /\ procs' = [procs EXCEPT ![p] =
                     IF k \notin DOMAIN metaFile \/ ~Parses(metaFile[k])
                     THEN CleanupStep(rec, left, rec.removed, rec.errors + 1)
                     ELSE IF IsExpired(metaFile[k], now)
                     THEN CleanupStep(rec, left \cup {<<"meta", k>>, <<"html", k>>},
                                      rec.removed, rec.errors)
                     ELSE CleanupStep(rec, left, rec.removed, rec.errors)]
          ELSE /\ htmlFile' = IF f[1] = "html" THEN Remove(htmlFile, k) ELSE htmlFile
               /\ metaFile' = IF f[1] = "meta" THEN Remove(metaFile, k) ELSE metaFile
               /\ procs' = [procs EXCEPT ![p] =
                     IF \E g \in left : g[2] = k
                     THEN CleanupStep(rec, left, rec.removed, rec.errors)
                     ELSE CleanupStep(rec, left, rec.removed + 1, rec.errors)]
       /\ UNCHANGED <<lifeVars, browserVars, call, ret, config, now, activeRequests, log, nCalls>>

FileOps ==
    {"get_meta", "get_unlink", "get_html", "get_heal", "set_write",
     "inv_unlink", "clear_readdir", "clear_unlink",
     "cleanup_readdir", "cleanup_files",
     "start_branch", "start_unlink", "start_cleanup"}

\* a timer set with setTimeout runs its callback when it is due: no sample of
\* the clock is taken past the due time of an armed timer. An operation on a
\* cache file, once started, completes within the sample; browser work may
\* span any number of samples.
TimePasses(step) ==
    /\ nCalls > 0
    /\ now < MaxTime * REQUEST_TIMEOUT_MS
    /\ \A p \in Slots : procs[p].pc \notin FileOps
    /\ \A p \in Slots : procs[p].orphan = "none"
    /\ \A p \in Slots :
          procs[p].timer = "armed" => now < procs[p].start + REQUEST_TIMEOUT_MS
    /\ \A p \in Slots :
          procs[p].cleanupTimer = "armed" => now < procs[p].cleanupDue
    /\ cleanupInterval.set => now < cleanupInterval.due
    /\ now' = now + step

\* time passes: the clock is sampled every REQUEST_TIMEOUT_MS. Time is
\* counted from the first call or request.
Tick ==
    /\ TimePasses(REQUEST_TIMEOUT_MS)
    /\ UNCHANGED <<lifeVars, browserVars, call, ret, config, htmlFile, metaFile, procs, activeRequests, log, nCalls>>

-----------------------------------------------------------------------------
(* Direct calls of the cache interface, one at a time                      *)

CacheUrls == { <<"u">>, <<"m", ":", "u">> }
CacheDevices == { <<"desktop">>, <<"desktop", ":", "m">> }
CacheHtmls == { "", "p1" }
CacheTtls == { 0, 30 }

NoneInFlight == \A p \in Slots : procs[p].pc \in {"idle", "done"}

\* cache.get(url, deviceType) is called
CallGet(url, deviceType) ==
    /\ NoneInFlight
    /\ nCalls < MaxCalls
    /\ nCalls' = nCalls + 1
    /\ log' = procs[1]
    /\ procs' = [procs EXCEPT ![1] =
          [IdleProc EXCEPT !.pc = "get_meta", !.kind = "api", !.op = "get",
                           !.url = url, !.device = deviceType, !.start = now,
                           !.before = [html |-> htmlFile, meta |-> metaFile]]]
    /\ UNCHANGED <<lifeVars, browserVars, call, ret, config, now, htmlFile, metaFile, activeRequests>>

\* cache.set(url, html, deviceType, cacheTtl) is called; expiresAt is taken
\* from the clock before the writes (cache.ts:208)
CallSet(url, html, deviceType, cacheTtl) ==
    /\ NoneInFlight
    /\ nCalls < MaxCalls
    /\ nCalls' = nCalls + 1
    /\ log' = procs[1]
    /\ procs' = [procs EXCEPT ![1] =
          [IdleProc EXCEPT !.pc = "set_write", !.kind = "api", !.op = "set",
                           !.url = url, !.device = deviceType, !.html = html,
                           !.ttl = cacheTtl, !.expiresAt = now + cacheTtl * 1000,
                           !.pending = {"html", "meta"}, !.start = now]]
    /\ UNCHANGED <<lifeVars, browserVars, call, ret, config, now, htmlFile, metaFile, activeRequests>>

\* cache.invalidate(url, deviceType) is called
CallInvalidate(url, deviceType) ==
    /\ NoneInFlight
    /\ nCalls < MaxCalls
    /\ nCalls' = nCalls + 1
    /\ log' = procs[1]
    /\ procs' = [procs EXCEPT ![1] =
          [IdleProc EXCEPT !.pc = "inv_unlink", !.kind = "api", !.op = "invalidate",
                           !.url = url, !.device = deviceType,
                           !.pending = {"html", "meta"}, !.start = now,
                           !.before = [html |-> htmlFile, meta |-> metaFile]]]
    /\ UNCHANGED <<lifeVars, browserVars, call, ret, config, now, htmlFile, metaFile, activeRequests>>

\* cache.clear() is called
CallClear ==
    /\ NoneInFlight
    /\ nCalls < MaxCalls
    /\ nCalls' = nCalls + 1
    /\ log' = procs[1]
    /\ procs' = [procs EXCEPT ![1] =
          [IdleProc EXCEPT !.pc = "clear_readdir", !.kind = "api", !.op = "clear",
                           !.start = now,
                           !.before = [html |-> htmlFile, meta |-> metaFile]]]
    /\ UNCHANGED <<lifeVars, browserVars, call, ret, config, now, htmlFile, metaFile, activeRequests>>

\* cache.cleanup() is called
CallCleanup ==
    /\ NoneInFlight
    /\ nCalls < MaxCalls
    /\ nCalls' = nCalls + 1
    /\ log' = procs[1]
    /\ procs' = [procs EXCEPT ![1] =
          [IdleProc EXCEPT !.pc = "cleanup_readdir", !.kind = "api", !.op = "cleanup",
                           !.start = now,
                           !.before = [html |-> htmlFile, meta |-> metaFile]]]
    /\ UNCHANGED <<lifeVars, browserVars, call, ret, config, now, htmlFile, metaFile, activeRequests>>

NoCall == [fn |-> "none"]
Pending == [ok |-> FALSE, val |-> <<"pending">>]

\* the cache directory before the first call: empty, or holding a metadata
\* file without its HTML file, as a set leaves when its metadata write
\* succeeded and its HTML write did not (cache.ts:216-224)
Dangling ==
    { << >>,
      Write(<< >>, GetCacheKey(<<"u">>, <<"desktop">>),
            [expiresAt |-> REQUEST_TIMEOUT_MS, url |-> <<"u">>,
             deviceType |-> <<"desktop">>]) }

\* what earlier calls may have stored for one (url, device): nothing, an
\* entry still valid, an entry already expired (times before the first call
\* are negative), one file of an entry without the other, or an entry whose
\* metadata file does not parse
StoredEntry(url, deviceType) ==
    LET k == GetCacheKey(url, deviceType)
        M(e) == Write(<< >>, k, [expiresAt |-> e, url |-> url, deviceType |-> deviceType])
        H == Write(<< >>, k, "p2")
    IN { [html |-> << >>, meta |-> << >>],
         [html |-> H, meta |-> M(REQUEST_TIMEOUT_MS)],
         [html |-> H, meta |-> M(0 - REQUEST_TIMEOUT_MS)],
         [html |-> H, meta |-> << >>],
         [html |-> H, meta |-> Write(<< >>, k, Corrupt)] }

\* the cache directories the calls start from
StoredDirs ==
    {[html |-> << >>, meta |-> m] : m \in Dangling}
    \cup {[html |-> a.html @@ b.html, meta |-> a.meta @@ b.meta] :
            a \in StoredEntry(<<"u">>, <<"desktop">>),
            b \in StoredEntry(<<"m", ":", "u">>, <<"desktop", ":", "m">>)}

CacheInit ==
    /\ call = NoCall
    /\ ret = Pending
    /\ config = RouterConfig
    /\ now = 0
    /\ \E d \in StoredDirs : htmlFile = d.html /\ metaFile = d.meta
    /\ procs = [p \in Slots |-> IdleProc]
    /\ activeRequests = 0
    /\ log = IdleProc
    /\ nCalls = 0
    /\ NoBrowser
    /\ Started

CacheNext ==
    \/ \E u \in CacheUrls, d \in CacheDevices : CallGet(u, d)
    \/ \E u \in CacheUrls, h \in CacheHtmls, d \in CacheDevices, t \in CacheTtls :
          CallSet(u, h, d, t)
    \/ GetReadMeta(1)
    \/ \E f \in {"html", "meta"} : GetUnlink(1, f)
    \/ GetReadHtml(1)
    \/ GetHeal(1)
    \/ \E f \in {"html", "meta"} : SetWrite(1, f)
    \/ \E u \in CacheUrls, d \in CacheDevices : CallInvalidate(u, d)
    \/ \E f \in {"html", "meta"} : InvalidateUnlink(1, f)
    \/ CallClear
    \/ ClearReaddir(1)
    \/ \E f \in DirFiles : ClearUnlink(1, f)
    \/ CallCleanup
    \/ CleanupReaddir(1)
    \/ \E f \in procs[1].pending : CleanupFile(1, f)
    \/ Tick

SpecCache == CacheInit /\ [][CacheNext]_vars

\* cache.set(url, html, deviceType, cacheTtl) is called while other calls
\* may be in flight
CallSetConcurrently(p, url, html, deviceType, cacheTtl) ==
    /\ procs[p].pc = "idle"
    /\ nCalls' = nCalls + 1
    /\ procs' = [procs EXCEPT ![p] =
          [IdleProc EXCEPT !.pc = "set_write", !.kind = "api", !.op = "set",
                           !.url = url, !.device = deviceType, !.html = html,
                           !.ttl = cacheTtl, !.expiresAt = now + cacheTtl * 1000,
                           !.pending = {"html", "meta"}, !.start = now]]
    /\ UNCHANGED <<lifeVars, browserVars, call, ret, config, now, htmlFile, metaFile, activeRequests, log>>

\* cache.get(url, deviceType) is called when the sets have returned
CallGetAfterSets(url, deviceType) ==
    /\ \A p \in Slots : procs[p].pc = "done" /\ procs[p].op = "set"
    /\ log = IdleProc
    /\ nCalls' = nCalls + 1
    /\ log' = procs[1]
    /\ procs' = [procs EXCEPT ![1] =
          [IdleProc EXCEPT !.pc = "get_meta", !.kind = "api", !.op = "get",
                           !.url = url, !.device = deviceType, !.start = now,
                           !.before = [html |-> htmlFile, meta |-> metaFile]]]
    /\ UNCHANGED <<lifeVars, browserVars, call, ret, config, now, htmlFile, metaFile, activeRequests>>

\* set calls in flight together on an empty cache directory, then a get
SetsInit ==
    /\ call = NoCall
    /\ ret = Pending
    /\ config = RouterConfig
    /\ now = 0
    /\ htmlFile = << >>
    /\ metaFile = << >>
    /\ procs = [p \in Slots |-> IdleProc]
    /\ activeRequests = 0
    /\ log = IdleProc
    /\ nCalls = 0
    /\ NoBrowser
    /\ Started

SetsNext ==
    \/ \E p \in Slots, u \in CacheUrls, h \in CacheHtmls, d \in CacheDevices,
          t \in CacheTtls : CallSetConcurrently(p, u, h, d, t)
    \/ \E p \in Slots, f \in {"html", "meta"} : SetWrite(p, f)
    \/ \E u \in CacheUrls, d \in CacheDevices : CallGetAfterSets(u, d)
    \/ GetReadMeta(1)
    \/ GetReadHtml(1)

SpecSets == SetsInit /\ [][SetsNext]_vars

\* C9: a set(url, html, device, ttl) with ttl > 0 that returned true, followed
\* by get(url, device) with no other cache call in between and before the
\* entry's expiry has passed, makes get return exactly html.
C9_SetThenGet ==
    ( /\ procs[1].kind = "api" /\ procs[1].op = "get" /\ procs[1].pc = "done"
      /\ log.kind = "api" /\ log.op = "set" /\ log.pc = "done"
      /\ log.result = Some(TRUE)
      /\ log.url = procs[1].url /\ log.device = procs[1].device
      /\ log.ttl > 0
      /\ now <= log.start + log.ttl * 1000 )
    => procs[1].result = Some(log.html)

C9_Witness ==
    /\ procs[1].kind = "api" /\ procs[1].op = "get" /\ procs[1].pc = "done"
    /\ log.op = "set" /\ log.result = Some(TRUE) /\ log.ttl > 0
    /\ log.url = procs[1].url /\ log.device = procs[1].device
    /\ now > log.start /\ now <= log.start + log.ttl * 1000
    /\ procs[1].result = Some("p1")

\* C10: a get(url, device) that starts after the expiresAt of the entry stored
\* for its key returns null, and once it has returned neither the HTML file
\* nor the metadata file of the key is in the cache directory.
C10_ExpiredGet ==
    ( /\ procs[1].kind = "api" /\ procs[1].op = "get" /\ procs[1].pc = "done"
      /\ log.kind = "api" /\ log.op = "set" /\ log.pc = "done"
      /\ log.result = Some(TRUE)
      /\ KeyOf(log) = KeyOf(procs[1])
      /\ procs[1].start > log.start + log.ttl * 1000 )
    => /\ procs[1].result = Null
       /\ KeyOf(procs[1]) \notin DOMAIN htmlFile
       /\ KeyOf(procs[1]) \notin DOMAIN metaFile

C10_Witness ==
    /\ procs[1].kind = "api" /\ procs[1].op = "get" /\ procs[1].pc = "done"
    /\ log.op = "set" /\ log.result = Some(TRUE) /\ log.html = "p1"
    /\ KeyOf(log) = KeyOf(procs[1])
    /\ procs[1].start > log.start + log.ttl * 1000
    /\ procs[1].result = Null

\* C23: a get(url, device) returns the HTML stored for its key if and only
\* if, when it starts, the metadata file of the key is there and parses, the
\* time is not later than its expiresAt, and the HTML file is there; in every
\* other case it returns null.
C23_GetIffValid ==
    ( procs[1].kind = "api" /\ procs[1].op = "get" /\ procs[1].pc = "done" )
    => LET k == KeyOf(procs[1])
           b == procs[1].before
           valid == /\ k \in DOMAIN b.meta
                    /\ Parses(b.meta[k])
                    /\ procs[1].start <= b.meta[k].expiresAt
                    /\ k \in DOMAIN b.html
       IN IF valid THEN procs[1].result = Some(b.html[k])
          ELSE procs[1].result = Null

\* a get at the very instant of expiresAt returned the stored HTML
C23_Witness ==
    /\ procs[1].kind = "api" /\ procs[1].op = "get" /\ procs[1].pc = "done"
    /\ KeyOf(procs[1]) \in DOMAIN procs[1].before.meta
    /\ Parses(procs[1].before.meta[KeyOf(procs[1])])
    /\ procs[1].start = procs[1].before.meta[KeyOf(procs[1])].expiresAt
    /\ procs[1].result = Some("p2")

\* C24 as stated: a get(url, device) that starts with exactly one of the two
\* files of its key on disk returns null, and when it has returned neither
\* file of the key is on disk.
C24_PartialPairHealed ==
    ( /\ procs[1].kind = "api" /\ procs[1].op = "get" /\ procs[1].pc = "done"
      /\ (KeyOf(procs[1]) \in DOMAIN procs[1].before.html)
            # (KeyOf(procs[1]) \in DOMAIN procs[1].before.meta) )
    => /\ procs[1].result = Null
       /\ KeyOf(procs[1]) \notin DOMAIN htmlFile
       /\ KeyOf(procs[1]) \notin DOMAIN metaFile

\* the keys whose metadata file, in directory dir, is expired at time t, and
\* those whose metadata file does not parse
ExpiredKeys(dir, t) ==
    {k \in DOMAIN dir.meta : Parses(dir.meta[k]) /\ t > dir.meta[k].expiresAt}
UnparsedKeys(dir) == {k \in DOMAIN dir.meta : ~Parses(dir.meta[k])}

\* C25: a cleanup() that ran alone has deleted both files of every entry
\* whose metadata was expired, has left every other file of the directory as
\* it was, and returns removed = the number of expired entries and errors =
\* the number of metadata files that did not parse.
C25_Cleanup ==
    ( procs[1].kind = "api" /\ procs[1].op = "cleanup" /\ procs[1].pc = "done" )
    => LET b == procs[1].before
           gone == ExpiredKeys(b, procs[1].start)
       IN /\ htmlFile = [k \in (DOMAIN b.html) \ gone |-> b.html[k]]
          /\ metaFile = [k \in (DOMAIN b.meta) \ gone |-> b.meta[k]]
          /\ procs[1].result =
                Some([removed |-> Cardinality(gone),
                      errors |-> Cardinality(UnparsedKeys(b))])

\* a cleanup removed both files of an expired entry and counted the
\* metadata file of another key, which did not parse and was left in place
C25_Witness ==
    /\ procs[1].kind = "api" /\ procs[1].op = "cleanup" /\ procs[1].pc = "done"
    /\ procs[1].result = Some([removed |-> 1, errors |-> 1])
    /\ \E k \in ExpiredKeys(procs[1].before, procs[1].start) :
          k \in DOMAIN procs[1].before.html
    /\ UnparsedKeys([html |-> htmlFile, meta |-> metaFile]) # {}

\* the files a cache directory holds for the keys other than k
OtherKeys(dir, k) ==
    [html |-> [d \in (DOMAIN dir.html) \ {k} |-> dir.html[d]],
     meta |-> [d \in (DOMAIN dir.meta) \ {k} |-> dir.meta[d]]]

\* C11: a get(url, device) that follows invalidate(url, device) returns null;
\* an invalidate that follows an invalidate of the same key returns true and
\* leaves the cache directory as it found it; every invalidate returns true
\* and leaves the files of every other key as they were.
C11_Invalidate ==
    /\ ( /\ procs[1].kind = "api" /\ procs[1].op = "get" /\ procs[1].pc = "done"
         /\ log.kind = "api" /\ log.op = "invalidate" /\ log.pc = "done"
         /\ log.url = procs[1].url /\ log.device = procs[1].device )
       => procs[1].result = Null
    /\ ( /\ procs[1].kind = "api" /\ procs[1].op = "invalidate" /\ procs[1].pc = "done"
         /\ log.kind = "api" /\ log.op = "invalidate" /\ log.pc = "done"
         /\ KeyOf(log) = KeyOf(procs[1]) )
       => /\ procs[1].result = Some(TRUE)
          /\ [html |-> htmlFile, meta |-> metaFile] = procs[1].before
    /\ ( procs[1].kind = "api" /\ procs[1].op = "invalidate" /\ procs[1].pc = "done" )
       => /\ procs[1].result = Some(TRUE)
          /\ KeyOf(procs[1]) \notin DOMAIN htmlFile
          /\ KeyOf(procs[1]) \notin DOMAIN metaFile
          /\ OtherKeys([html |-> htmlFile, meta |-> metaFile], KeyOf(procs[1]))
                = OtherKeys(procs[1].before, KeyOf(procs[1]))

\* an invalidate removed a valid entry and left another key's entry, and the
\* get that followed missed
C11_Witness ==
    /\ procs[1].kind = "api" /\ procs[1].op = "get" /\ procs[1].pc = "done"
    /\ log.kind = "api" /\ log.op = "invalidate" /\ log.pc = "done"
    /\ log.url = procs[1].url /\ log.device = procs[1].device
    /\ KeyOf(log) \in DOMAIN log.before.html
    /\ KeyOf(log) \in DOMAIN log.before.meta
    /\ ~IsExpired(log.before.meta[KeyOf(log)], now)
    /\ DOMAIN htmlFile # {} /\ DOMAIN metaFile # {}
    /\ procs[1].result = Null

\* C12: once clear() has returned, the cache directory holds no .html and
\* no .meta file, whatever it held when clear was called.
C12_ClearLeavesNothing ==
    ( procs[1].kind = "api" /\ procs[1].op = "clear" /\ procs[1].pc = "done" )
    => DirFiles = {}

\* clear returned over a directory that held a valid entry and a file
\* without its partner
C12_Witness ==
    /\ procs[1].kind = "api" /\ procs[1].op = "clear" /\ procs[1].pc = "done"
    /\ procs[1].result = Some(TRUE)
    /\ \E k \in DOMAIN procs[1].before.html : k \notin DOMAIN procs[1].before.meta
    /\ \E k \in DOMAIN procs[1].before.html : k \in DOMAIN procs[1].before.meta
    /\ DirFiles = {}

-----------------------------------------------------------------------------
(* validatePath and getHostConfig over enumerated arguments                *)

PathChars == {"/", ".", "a", "b"}
BasePaths == { Under(<<"a">>, <<>>), Under(<<"a", "b">>, <<>>) }

GlobPatterns == { <<"a">>, <<"*">>, <<"*", "a">>, <<"a", "*">>, <<"b">> }
HostNames == { <<"a">>, <<"b">>, <<"b", "a">>, <<"a", "b">> }

\* the i-th entry of an enumerated hosts list names its own source directory
SourceTag(i) == [j \in 1..i |-> "s"]
HostEntries(i) ==
    {[host |-> pt, source |-> SourceTag(i)] : pt \in GlobPatterns}
    \cup {[host |-> pt, source |-> SourceTag(i), isActive |-> b] :
             pt \in GlobPatterns, b \in BOOLEAN}
HostLists ==
    UNION { {hs \in [1..k -> UNION {HostEntries(i) : i \in 1..k}] :
                \A i \in 1..k : hs[i].source = SourceTag(i)} : k \in 0..MaxHosts }

Quiet ==
    /\ now = 0
    /\ htmlFile = << >>
    /\ metaFile = << >>
    /\ procs = [p \in Slots |-> IdleProc]
    /\ activeRequests = 0
    /\ log = IdleProc
    /\ nCalls = 0
    /\ NoBrowser
    /\ Started

PathInit ==
    /\ call \in {[fn |-> "validatePath", basePath |-> b, requestedPath |-> r] :
                    b \in BasePaths, r \in Strs(PathChars, MaxPathLen)}
    /\ ret = Pending
    /\ config = RouterConfig
    /\ Quiet

ApplyValidatePath ==
    /\ call.fn = "validatePath"
    /\ ret = Pending
    /\ ret' = ValidatePath(call.basePath, call.requestedPath)
    /\ UNCHANGED <<lifeVars, browserVars, call, config, now, htmlFile, metaFile, procs, activeRequests, log, nCalls>>

SpecPath == PathInit /\ [][ApplyValidatePath]_vars

HostInit ==
    /\ call \in {[fn |-> "getHostConfig", hostname |-> n] : n \in HostNames}
    /\ ret = Pending
    /\ config \in {LoadedConfig(hs) : hs \in HostLists}
    /\ Quiet

ApplyGetHostConfig ==
    /\ call.fn = "getHostConfig"
    /\ ret = Pending
    /\ ret' = GetHostConfig(config, call.hostname)
    /\ UNCHANGED <<lifeVars, browserVars, call, config, now, htmlFile, metaFile, procs, activeRequests, log, nCalls>>

SpecHost == HostInit /\ [][ApplyGetHostConfig]_vars

\* matchesGlobPattern on its own: patterns and hostnames of up to MaxGlobLen
\* pieces of text, each piece a character or, for patterns, the text of
\* the placeholder of config.ts:141
MaxGlobLen == 3
GlobChars == {"a", ".", "+", "*", WILDCARD_PLACEHOLDER}
HostChars == {"a", "b", ".", "+"}

GlobInit ==
    /\ call \in {[fn |-> "matchesGlobPattern", pattern |-> pt, hostname |-> n] :
                    pt \in Strs(GlobChars, MaxGlobLen),
                    n \in Strs(HostChars, MaxGlobLen)}
    /\ ret = Pending
    /\ config = RouterConfig
    /\ Quiet

ApplyMatchesGlobPattern ==
    /\ call.fn = "matchesGlobPattern"
    /\ ~ret.ok
    /\ ret' = Some(MatchesGlobPattern(call.pattern, call.hostname))
    /\ UNCHANGED <<lifeVars, browserVars, call, config, now, htmlFile, metaFile, procs, activeRequests, log, nCalls>>

SpecGlob == GlobInit /\ [][ApplyMatchesGlobPattern]_vars

\* getEffectiveConfig on its own: a config.json that sets any of the global
\* fields and one host with any of the per-host overrides, an environment
\* that sets some of the recognised variables, and a hostname that the host
\* entry matches or not
FileFields ==
    [ parallelRenders |-> 3, strategy |-> "ssr", cacheCleanupInterval |-> 5,
      rootSelector |-> "#main", clearCacheOnStartup |-> FALSE,
      htmlOptimizerOptions |-> "fileOptions", bots |-> << <<"Xbot">> >> ]
HostFields ==
    [ strategy |-> "smart-ssr", timeoutMs |-> 500, parallelRenders |-> 1,
      bots |-> << >>, rootSelector |-> "#h",
      htmlOptimizerOptions |-> "hostOptions" ]
EnvFields ==
    [ MAX_CONCURRENCY |-> <<"4">>, STRATEGY |-> "csr",
      TIMEOUT_MS |-> <<"2", "0", "0", "0">>, CACHE_CLEANUP_INTERVAL |-> <<"7">> ]
Restrict(r, S) == [k \in S |-> r[k]]
ConfigHosts ==
    { << Restrict(HostFields, S) @@ [host |-> <<"a", ".", "x">>, source |-> <<"a">>] >> :
        S \in SUBSET DOMAIN HostFields }
ConfigFiles ==
    { Restrict(FileFields, S) @@ [hosts |-> hs] :
        S \in SUBSET DOMAIN FileFields, hs \in ConfigHosts }
ConfigEnvs ==
    { Restrict(EnvFields, S) :
        S \in { {}, {"MAX_CONCURRENCY", "STRATEGY"},
                 {"TIMEOUT_MS", "CACHE_CLEANUP_INTERVAL"}, DOMAIN EnvFields } }

ConfigInit ==
    /\ call \in {[fn |-> "getEffectiveConfig", fileConfig |-> f, env |-> e,
                   hostname |-> n] :
                    f \in ConfigFiles, e \in ConfigEnvs,
                    n \in { <<"a", ".", "x">>, <<"u", ".", "y">> }}
    /\ ret = Pending
    /\ config = LoadConfig(call.fileConfig, call.env)
    /\ Quiet

ApplyGetEffectiveConfig ==
    /\ call.fn = "getEffectiveConfig"
    /\ ~ret.ok
    /\ ret' = Some(GetEffectiveConfig(config, call.hostname))
    /\ UNCHANGED <<lifeVars, browserVars, call, config, now, htmlFile, metaFile, procs, activeRequests, log, nCalls>>

SpecConfig == ConfigInit /\ [][ApplyGetEffectiveConfig]_vars

\* the path components of an absolute path
Components(p) == SelectSeq(SplitAt(p, "/"), LAMBDA c : c # <<>>)

\* p names the directory base or something below it
Inside(base, p) ==
    LET b == Components(base)
        c == Components(p)
    IN /\ PathIsAbsolute(p)
       /\ Len(b) <= Len(c)
       /\ SubSeq(c, 1, Len(b)) = b
       /\ \A i \in 1..Len(c) : c[i] # DotDot /\ c[i] # <<".">>

\* C2: for every request path, validatePath returns null or a path that names
\* the source directory or something below it.
C2_PathInside ==
    (call.fn = "validatePath" /\ ret # Pending)
    => (ret = Null \/ (ret.ok /\ Inside(call.basePath, ret.val)))

C2_Witness ==
    /\ call.fn = "validatePath" /\ ret # Pending
    /\ Includes(call.requestedPath, DotDot)
    /\ ret.ok /\ Inside(call.basePath, ret.val)

ActiveAt(hs, i) == ~Has(hs[i], "isActive") \/ hs[i].isActive
ExactAt(hs, n) == {i \in 1..Len(hs) : hs[i].host = n /\ ActiveAt(hs, i)}
GlobAt(hs, n) ==
    {i \in 1..Len(hs) : MatchesGlobPattern(hs[i].host, n) /\ ActiveAt(hs, i)}
Least(S) == CHOOSE i \in S : \A j \in S : i <= j

\* C4: getHostConfig returns the active entry whose host equals the hostname
\* when there is one, even after an earlier active glob entry that matches;
\* otherwise the first active entry whose pattern glob-matches; otherwise null.
C4_ExactThenGlob ==
    (call.fn = "getHostConfig" /\ ret # Pending)
    => LET hs == config.hosts
           n == call.hostname
       IN IF ExactAt(hs, n) # {} THEN ret = Some(hs[Least(ExactAt(hs, n))])
          ELSE IF GlobAt(hs, n) # {} THEN ret = Some(hs[Least(GlobAt(hs, n))])
          ELSE ret = Null

C4_Witness ==
    /\ call.fn = "getHostConfig" /\ ret # Pending
    /\ ExactAt(config.hosts, call.hostname) # {}
    /\ \E j \in GlobAt(config.hosts, call.hostname) :
          /\ j < Least(ExactAt(config.hosts, call.hostname))
          /\ config.hosts[j].host # call.hostname
    /\ ret = Some(config.hosts[Least(ExactAt(config.hosts, call.hostname))])

-----------------------------------------------------------------------------
(* optimizeHtmlForSEO (index.ts:944). A document is the content of <body>, *)
(* written as a sequence of tokens: tags, comments and the characters of   *)
(* text; cheerio.load parses it into nodes and $.html() writes them back.  *)

MaxNodes == 3       \* nodes in the body of an enumerated document

TextChars == {"t", " "}

\* the start tags of the documents, with the attributes they carry
OpenTags ==
    { [tok |-> "<div>", tag |-> "div", attrs |-> {}],
      [tok |-> "<div class>", tag |-> "div", attrs |-> {"class"}],
      [tok |-> "<div data-x>", tag |-> "div", attrs |-> {"data-x"}],
      [tok |-> "<br>", tag |-> "br", attrs |-> {}],
      [tok |-> "<script>", tag |-> "script", attrs |-> {}] }
CloseTags == {"</div>", "</script>"}
CommentToken == "<!---->"
VoidTags == {"br"}

OpenOf(tok) == CHOOSE o \in OpenTags : o.tok = tok
OpenToken(tag, attrs) == (CHOOSE o \in OpenTags : o.tag = tag /\ o.attrs = attrs).tok
CloseToken(tag) == IF tag = "div" THEN "</div>" ELSE "</script>"

El(tag, attrs, kids) == [tag |-> tag, attrs |-> attrs, text |-> <<>>, kids |-> kids]
TextNode(text) == [tag |-> "#text", attrs |-> {}, text |-> text, kids |-> <<>>]
CommentNode == [tag |-> "#comment", attrs |-> {}, text |-> <<>>, kids |-> <<>>]
IsElement(n) == n.tag \notin {"#text", "#comment"}

\* text.trim() === ''
Blank(text) == \A i \in 1..Len(text) : text[i] = " "

\* the elements of toks at the indices idx, in order
Pick(toks, idx) ==
    [j \in 1..Cardinality(idx) |->
        toks[CHOOSE i \in idx : Cardinality({k \in idx : k <= i}) = j]]

\* cheerio.load: the nodes a token sequence stands for, up to the first end
\* tag that closes the enclosing element; a run of characters is one text node
RECURSIVE ParseNodes(_)
ParseNodes(toks) ==
    IF toks = <<>> \/ Head(toks) \in CloseTags
    THEN [nodes |-> <<>>, rest |-> toks]
    ELSE IF Head(toks) \in TextChars
    THEN LET stops == {i \in 1..Len(toks) : toks[i] \notin TextChars}
             n == IF stops = {} THEN Len(toks)
                  ELSE (CHOOSE i \in stops : \A j \in stops : i <= j) - 1
             more == ParseNodes(SubSeq(toks, n + 1, Len(toks)))
         IN [nodes |-> <<TextNode(SubSeq(toks, 1, n))>> \o more.nodes,
             rest |-> more.rest]
    ELSE IF Head(toks) = CommentToken
    THEN LET more == ParseNodes(Tail(toks))
         IN [nodes |-> <<CommentNode>> \o more.nodes, rest |-> more.rest]
    ELSE LET o == OpenOf(Head(toks))
         IN IF o.tag \in VoidTags
            THEN LET more == ParseNodes(Tail(toks))
                 IN [nodes |-> <<El(o.tag, o.attrs, <<>>)>> \o more.nodes,
                     rest |-> more.rest]
            ELSE LET inner == ParseNodes(Tail(toks))
                     more == ParseNodes(Tail(inner.rest))
                 IN [nodes |-> <<El(o.tag, o.attrs, inner.nodes)>> \o more.nodes,
                     rest |-> more.rest]

Parse(html) == ParseNodes(html).nodes

\* $.html(): the tokens of the nodes
RECURSIVE Serialize(_)
Serialize(nodes) ==
    IF nodes = <<>> THEN <<>>
    ELSE LET n == Head(nodes)
             own == IF n.tag = "#text" THEN n.text
                    ELSE IF n.tag = "#comment" THEN <<CommentToken>>
                    ELSE IF n.tag \in VoidTags THEN <<OpenToken(n.tag, n.attrs)>>
                    ELSE <<OpenToken(n.tag, n.attrs)>> \o Serialize(n.kids)
                         \o <<CloseToken(n.tag)>>
         IN own \o Serialize(Tail(nodes))

\* $(selector).remove() for a selector that names tags or comment nodes
RECURSIVE RemoveTags(_, _)
RemoveTags(nodes, tags) ==
    IF nodes = <<>> THEN <<>>
    ELSE LET n == Head(nodes)
         IN (IF n.tag \in tags THEN <<>>
             ELSE <<[n EXCEPT !.kids = RemoveTags(n.kids, tags)]>>)
            \o RemoveTags(Tail(nodes), tags)

\* the attributes the optimizer removes: data-*, aria-*, on*, style
\* (index.ts:1050-1098)
StrippedAttrs == {"data-x", "aria-x", "onclick", "style"}

RECURSIVE StripAttrs(_)
StripAttrs(nodes) ==
    IF nodes = <<>> THEN <<>>
    ELSE LET n == Head(nodes)
         IN <<[n EXCEPT !.attrs = @ \ StrippedAttrs, !.kids = StripAttrs(n.kids)]>>
            \o StripAttrs(Tail(nodes))

\* keepTags (index.ts:1118)
KeepTags ==
    {"script", "style", "meta", "link", "img", "br", "hr", "input", "source",
     "track", "area", "col", "embed", "param", "wbr"}

\* $el.text().trim(): the text of all descendants is blank
RECURSIVE NoText(_)
NoText(nodes) ==
    \A i \in 1..Len(nodes) :
        IF nodes[i].tag = "#text" THEN Blank(nodes[i].text) ELSE NoText(nodes[i].kids)

\* the test of the empty-element pass (index.ts:1136), made on each element
\* of $('body *') in document order: a parent is tested before its children,
\* while they are still attached
RemovedAsEmpty(n) ==
    /\ IsElement(n)
    /\ n.tag \notin KeepTags
    /\ NoText(n.kids)
    /\ \A i \in 1..Len(n.kids) : ~IsElement(n.kids[i])
    /\ n.attrs = {}

\* the empty-element pass (index.ts:1108-1139)
RECURSIVE RemoveEmpty(_)
RemoveEmpty(nodes) ==
    IF nodes = <<>> THEN <<>>
    ELSE LET n == Head(nodes)
         IN (IF RemovedAsEmpty(n) THEN <<>>
             ELSE <<[n EXCEPT !.kids = RemoveEmpty(n.kids)]>>)
            \o RemoveEmpty(Tail(nodes))

\* text.replace(/\s+/g, ' ').trim() on a text that is not blank
CollapseTrim(text) ==
    LET first == CHOOSE i \in 1..Len(text) :
                     text[i] # " " /\ \A j \in 1..(i - 1) : text[j] = " "
        last == CHOOSE i \in 1..Len(text) :
                    text[i] # " " /\ \A j \in (i + 1)..Len(text) : text[j] = " "
    IN Pick(text, {i \in first..last : text[i] # " " \/ text[i - 1] # " "})

\* the whitespace pass over the text nodes of every element below <body>
\* (index.ts:1142-1159); inBody is true for the children of <body> itself,
\* whose text nodes the pass does not visit
RECURSIVE MinifyText(_, _)
MinifyText(nodes, inBody) ==
    IF nodes = <<>> THEN <<>>
    ELSE LET n == Head(nodes)
         IN (IF n.tag = "#text" /\ ~inBody
             THEN IF Blank(n.text) THEN <<>> ELSE <<TextNode(CollapseTrim(n.text))>>
             ELSE <<[n EXCEPT !.kids = MinifyText(n.kids, FALSE)]>>)
            \o MinifyText(Tail(nodes), inBody)

IsTagToken(tok) == tok \notin TextChars

\* optimized.replace(/>\s+</g, '><') inside <body>...</body>: a run of
\* whitespace that stands between two tags is removed
SpaceBetweenTags(toks, i) ==
    /\ toks[i] = " "
    /\ LET left == {j \in 1..(i - 1) : toks[j] # " "}
           right == {j \in (i + 1)..Len(toks) : toks[j] # " "}
       IN /\ left # {} => IsTagToken(toks[CHOOSE j \in left : \A k \in left : k <= j])
          /\ right # {} => IsTagToken(toks[CHOOSE j \in right : \A k \in right : j <= k])

DropSpaceBetweenTags(toks) ==
    Pick(toks, {i \in 1..Len(toks) : ~SpaceBetweenTags(toks, i)})

\* optimized.replace(/  +/g, ' ')
CollapseSpaces(toks) ==
    Pick(toks, {i \in 1..Len(toks) : ~(toks[i] = " " /\ i > 1 /\ toks[i - 1] = " ")})

\* optimizeHtmlForSEO (index.ts:944) with the default options
OptimizeHtmlForSEO(html) ==
    LET parsed == Parse(html)
        noScript == RemoveTags(parsed, {"script"})
        noComment == RemoveTags(noScript, {"#comment"})
        stripped == StripAttrs(noComment)
        noEmpty == RemoveEmpty(stripped)
        minified == MinifyText(noEmpty, TRUE)
    IN CollapseSpaces(DropSpaceBetweenTags(Serialize(minified)))

\* the nodes without children of the enumerated documents
LeafNodes ==
    { TextNode(<<"t">>), TextNode(<<" ">>), TextNode(<<"t", " ", " ", "t">>),
      CommentNode, El("div", {}, <<>>), El("div", {"class"}, <<>>),
      El("div", {"data-x"}, <<>>), El("br", {}, <<>>), El("script", {}, <<>>) }

\* the trees of exactly n nodes and the sequences of trees of n nodes in all
RECURSIVE TreesOf(_), ForestsOf(_)
TreesOf(n) ==
    IF n = 1 THEN LeafNodes
    ELSE {El("div", a, f) : a \in {{}, {"class"}}, f \in ForestsOf(n - 1)}
ForestsOf(n) ==
    IF n = 0 THEN {<<>>}
    ELSE UNION {{<<t>> \o f : t \in TreesOf(k), f \in ForestsOf(n - k)} : k \in 1..n}

\* the documents: what $.html() writes for a body of up to MaxNodes nodes, so
\* that no two text nodes are adjacent
Documents ==
    {Serialize(f) : f \in UNION {ForestsOf(n) : n \in 0..MaxNodes}}

OptimizeInit ==
    /\ call \in {[fn |-> "optimizeHtmlForSEO", html |-> d] : d \in Documents}
    /\ ret = Pending
    /\ config = RouterConfig
    /\ Quiet

ApplyOptimize ==
    /\ call.fn = "optimizeHtmlForSEO"
    /\ ret = Pending
    /\ ret' = Some(OptimizeHtmlForSEO(call.html))
    /\ UNCHANGED <<lifeVars, browserVars, call, config, now, htmlFile, metaFile, procs, activeRequests, log, nCalls>>

SpecOptimize == OptimizeInit /\ [][ApplyOptimize]_vars

\* C19 as stated: the optimizer applied to its own output returns that
\* output, for every document.
C19_OptimizeIdempotent ==
    (call.fn = "optimizeHtmlForSEO" /\ ret # Pending)
    => OptimizeHtmlForSEO(ret.val) = ret.val

-----------------------------------------------------------------------------
(* The HTTP server: requests through the timeout middleware, the main      *)
(* routing middleware, renderPage and render()                             *)

MaxArrivals == 3    \* HTTP requests received in one run

RenderedPages == {"p1", "p2"}

\* the optimizer's output for the rendered pages of the server runs, which
\* name whole documents: page p1 becomes document o1, page p2 document o2
OptimizedPage(html) ==
    CASE html = "p1" -> "o1"
      [] html = "p2" -> "o2"
      [] OTHER -> html

InFlight(rec) == rec.pc \notin {"idle", "done"}

\* the requests for the cache key of an arriving request that were answered
\* with a fresh render before it arrived
PriorOf(url, q) ==
    {[req |-> procs[s].req, html |-> procs[s].resp.html,
      expiresAt |-> procs[s].expiresAt, alone |-> procs[s].alone] :
        s \in {t \in Slots : /\ procs[t].kind = "http" /\ procs[t].pc = "done"
                             /\ procs[t].url = url
                             /\ procs[t].resp.kind = "html"
                             /\ procs[t].resp.cache = "miss"}}

\* A router that looks the cache up before it decides how to serve.
DispatchCacheFirst(p, q, dec) ==
    LET key == IF q.origin # <<>> THEN q.origin \o OriginalUrl(q)
               ELSE <<"http://">> \o HostHeaderName(q) \o OriginalUrl(q)
        rec == [IdleProc EXCEPT !.kind = "http", !.req = q, !.dec = dec,
                                !.timer = "armed", !.start = now,
                                !.pc = "get_meta", !.op = "get", !.url = key,
                                !.device = <<"desktop">>, !.cacheReads = 1]
    IN /\ nCalls' = nCalls + 1
       /\ procs' = [procs EXCEPT ![p] = rec]
       /\ UNCHANGED <<lifeVars, browserVars, call, ret, config, now, htmlFile, metaFile, activeRequests, log>>

\* the main routing middleware acts on its decision: it answers, or enters
\* renderPage, whose first await is cache.get (index.ts:424)
Dispatch(p, q, dec) ==
    LET base == [IdleProc EXCEPT !.kind = "http", !.req = q, !.dec = dec,
                                 !.timer = "armed", !.start = now]
        sameKey(t) == /\ t # p /\ procs[t].kind = "http"
                      /\ dec.kind = "render" /\ procs[t].url = dec.cacheKey
        rec == CASE dec.kind = "file" -> Reply(base, FileResp(dec.file))
                 [] dec.kind = "error" -> Reply(base, ErrorResp(dec.status))
                 [] dec.kind = "next" -> [base EXCEPT !.pc = "next"]
                 [] dec.kind = "render" ->
                        [base EXCEPT !.pc = "get_meta", !.op = "get",
                                     !.url = dec.cacheKey,
                                     !.device = <<"desktop">>,
                                     !.cacheReads = 1,
                                     !.alone = \A t \in Slots :
                                                  sameKey(t) => ~InFlight(procs[t]),
                                     !.prior = PriorOf(dec.cacheKey, q)]
    IN /\ nCalls' = nCalls + 1
       /\ procs' = [t \in Slots |->
             IF t = p THEN rec
             ELSE IF sameKey(t) THEN [procs[t] EXCEPT !.alone = FALSE]
             ELSE procs[t]]
       /\ UNCHANGED <<lifeVars, browserVars, call, ret, config, now, htmlFile, metaFile, activeRequests, log>>

\* a request arrives: the timeout middleware arms its timer (index.ts:169)
\* and the main routing middleware decides (index.ts:465)
Receive(p, q) ==
    /\ procs[p].pc \in {"idle", "done"}
    /\ nCalls < MaxArrivals
    /\ \E dec \in {Route(config, q)} : Dispatch(p, q, dec)

\* the timeout callback (index.ts:170-174)
Timer504(p) ==
    LET rec == procs[p]
    IN /\ rec.timer = "armed"
       /\ now >= rec.start + REQUEST_TIMEOUT_MS
       /\ procs' = [procs EXCEPT ![p] =
             IF HeadersSent(rec) THEN [rec EXCEPT !.timer = "fired"]
             ELSE [rec EXCEPT !.timer = "fired", !.resp = ErrorResp(504)]]
       /\ UNCHANGED <<lifeVars, browserVars, call, ret, config, now, htmlFile, metaFile, activeRequests, log, nCalls>>

\* An admission check that rejects only above the limit.
RenderAdmitOneOver(p) ==
    LET rec == procs[p]
    IN /\ rec.pc = "r_admit"
       /\ IF activeRequests > rec.dec.eff.maxConcurrency
          THEN /\ procs' = [procs EXCEPT ![p] =
                     AfterRender([rec EXCEPT !.renderErr = "admission"], now)]
               /\ UNCHANGED activeRequests
          ELSE /\ activeRequests' = activeRequests + 1
               /\ procs' = [procs EXCEPT ![p] =
                     [rec EXCEPT !.pc = "r_browse", !.admitted = @ + 1]]
       /\ UNCHANGED <<lifeVars, browserVars, call, ret, config, now, htmlFile, metaFile, log, nCalls>>

\* render(): the admission check (index.ts:1364-1369); at capacity it throws
\* before the try block, so nothing is released
RenderAdmit(p) ==
    LET rec == procs[p]
    IN /\ rec.pc = "r_admit"
       /\ IF activeRequests >= rec.dec.eff.maxConcurrency
          THEN /\ procs' = [procs EXCEPT ![p] =
                     AfterRender([rec EXCEPT !.renderErr = "admission"], now)]
               /\ UNCHANGED activeRequests
          ELSE /\ activeRequests' = activeRequests + 1
               /\ procs' = [procs EXCEPT ![p] =
                     [rec EXCEPT !.pc = "r_browse", !.admitted = @ + 1]]
       /\ UNCHANGED <<lifeVars, browserVars, call, ret, config, now, htmlFile, metaFile, log, nCalls>>

RenderFailures == {"launch", "navigation", "content"}

\* the try block of render() (index.ts:1375-1437): launchBrowser, newContext,
\* newPage and page.route, then waitForReadiness, then page.content() and
\* the optimizer; any of the awaits may throw
RenderBrowse(p, outcome) ==
    LET rec == procs[p]
    IN /\ rec.pc = "r_browse"
       /\ procs' = [procs EXCEPT ![p] =
             LET done == [rec EXCEPT !.pc = "r_cleanup",
                                     !.cleanupTimer = "armed",
                                     !.cleanupDue = now + BROWSER_CLEANUP_TIMEOUT_MS]
             IN IF outcome \in RenderFailures
                THEN [done EXCEPT !.renderErr = outcome]
                ELSE [done EXCEPT !.html = IF rec.dec.eff.strategy # "ssr"
                                           THEN OptimizedPage(outcome)
                                           ELSE outcome]]
       /\ UNCHANGED <<lifeVars, browserVars, call, ret, config, now, htmlFile, metaFile, activeRequests, log, nCalls>>

\* the end of the finally block (index.ts:1476-1477): the race is settled,
\* the counter is released and render() returns or throws to renderPage
\* (index.ts:448-461). A cleanup timer that is still pending has nothing left
\* to do, and is dropped ("none"); one that has settled the race is "fired".
Released(rec, t, timer) ==
    AfterRender([rec EXCEPT !.released = @ + 1, !.cleanupTimer = timer,
                            !.cleanupDue = 0], t)

\* A finally block that forgets the release.
RenderCleanupKeepsCount(p) ==
    LET rec == procs[p]
    IN /\ rec.pc = "r_cleanup"
       /\ UNCHANGED activeRequests
       /\ procs' = [procs EXCEPT ![p] = Released(rec, now, "none")]
       /\ UNCHANGED <<lifeVars, browserVars, call, ret, config, now, htmlFile, metaFile, log, nCalls>>

\* the finally block when the cleanup wins the race (index.ts:1440-1457,
\* 1476-1477): page.close() and context.close() have completed or thrown,
\* which may take any time or never happen; then the release
RenderCleanup(p) ==
    LET rec == procs[p]
    IN /\ rec.pc = "r_cleanup"
       /\ activeRequests' = activeRequests - 1
       /\ procs' = [procs EXCEPT ![p] = Released(rec, now, "none")]
       /\ UNCHANGED <<lifeVars, browserVars, call, ret, config, now, htmlFile, metaFile, log, nCalls>>

\* A finally block that awaits the cleanup alone: the timer forces the
\* close and the render goes on waiting.
RenderCleanupTimeoutWaits(p) ==
    LET rec == procs[p]
    IN /\ rec.pc = "r_cleanup"
       /\ rec.cleanupTimer = "armed"
       /\ now >= rec.cleanupDue
       /\ UNCHANGED activeRequests
       /\ procs' = [procs EXCEPT ![p] = [rec EXCEPT !.cleanupTimer = "fired"]]
       /\ UNCHANGED <<lifeVars, browserVars, call, ret, config, now, htmlFile, metaFile, log, nCalls>>

\* the finally block when the timer wins the race (index.ts:1460-1477): the
\* cleanup has not completed after BROWSER_CLEANUP_TIMEOUT_MS, the callback
\* forces the close without awaiting it and resolves; then the release
RenderCleanupTimeout(p) ==
    LET rec == procs[p]
    IN /\ rec.pc = "r_cleanup"
       /\ rec.cleanupTimer = "armed"
       /\ now >= rec.cleanupDue
       /\ activeRequests' = activeRequests - 1
       /\ procs' = [procs EXCEPT ![p] = Released(rec, now, "fired")]
       /\ UNCHANGED <<lifeVars, browserVars, call, ret, config, now, htmlFile, metaFile, log, nCalls>>

\* the requests of the page under render, as the handler of page.route sees
\* them (index.ts:1403-1420): a resource type, and a path at the loopback
\* server with the context's user agent
ResourceTypes == {"document", "script", "xhr", "fetch", "image", "stylesheet"}
AllowedTypes == {"document", "script", "xhr", "fetch"}
RENDERX_USER_AGENT == <<"RenderX">>
LocalHost == <<"localhost", ":", "8080">>
BrowserPaths == { <<"/", "p">>, <<"/", "f", ".", "j">>, <<"/", "n", ".", "j">>, <<"/", "r">> }
PageRequest(path) ==
    [ origin |-> <<>>, host |-> LocalHost, userAgent |-> RENDERX_USER_AGENT,
      internal |-> <<>>, path |-> path, query |-> <<>> ]

\* A route handler that forwards the Origin only.
RouteContinueOriginOnly(q, origin) ==
    [q EXCEPT !.origin = IF origin # <<>> THEN origin ELSE @]

\* route.continue({ headers }) (index.ts:1412-1417): the request's own
\* headers, the Origin of the render when it has one, and the internal mark
RouteContinue(q, origin) ==
    [q EXCEPT !.origin = IF origin # <<>> THEN origin ELSE @,
              !.internal = <<"true">>]

\* the page of the render in slot p asks for a resource: the route handler
\* aborts it or sends it on to the server, where the main routing middleware
\* takes it in slot s
BrowserRequest(p, s, type, path) ==
    /\ procs[p].pc = "r_browse"
    /\ s # p
    /\ procs[s].pc \in {"idle", "done"}
    /\ nCalls < MaxArrivals
    /\ type \in AllowedTypes
    /\ \E q \in {RouteContinue(PageRequest(path), procs[p].req.origin)} :
          \E dec \in {Route(config, q)} : Dispatch(s, q, dec)

\* the steps of a request in slot p, its render ending in one of outcomes
ServeWith(p, outcomes) ==
    \/ GetReadMeta(p)
    \/ \E f \in {"html", "meta"} : GetUnlink(p, f)
    \/ GetReadHtml(p)
    \/ GetHeal(p)
    \/ RenderAdmit(p)
    \/ \E outcome \in outcomes : RenderBrowse(p, outcome)
    \/ RenderCleanup(p)
    \/ RenderCleanupTimeout(p)
    \/ \E f \in {"html", "meta"} : SetWrite(p, f)
    \/ Timer504(p)

Serve(p) == ServeWith(p, RenderedPages \cup RenderFailures)

\* what the requests served before the run may have left in the cache
\* directory for one cache key: nothing, an entry still valid, an entry
\* already expired, or a metadata file without its HTML file. Times before
\* the first request of the run are negative.
LeftKey == GetCacheKey(Https(<<"b", ".", "x">>) \o <<"/", "p">>, <<"desktop">>)
LeftMeta(expiresAt) ==
    [expiresAt |-> expiresAt, url |-> Https(<<"b", ".", "x">>) \o <<"/", "p">>,
     deviceType |-> <<"desktop">>]
LeftBehind ==
    { [html |-> << >>, meta |-> << >>],
      [html |-> Write(<< >>, LeftKey, "p1"),
       meta |-> Write(<< >>, LeftKey, LeftMeta(REQUEST_TIMEOUT_MS))],
      [html |-> Write(<< >>, LeftKey, "p1"),
       meta |-> Write(<< >>, LeftKey, LeftMeta(0 - REQUEST_TIMEOUT_MS))],
      [html |-> << >>,
       meta |-> Write(<< >>, LeftKey, LeftMeta(REQUEST_TIMEOUT_MS))] }

\* a server with no request in flight, over an empty cache directory or one
\* that holds an expired entry
ServerInit ==
    /\ call = NoCall
    /\ ret = Pending
    /\ config = RouterConfig
    /\ \E d \in LeftBehind :
          /\ d.meta # << >> => d.html # << >> /\ d.meta[LeftKey].expiresAt < 0
          /\ htmlFile = d.html
          /\ metaFile = d.meta
    /\ now = 0
    /\ procs = [p \in Slots |-> IdleProc]
    /\ activeRequests = 0
    /\ log = IdleProc
    /\ nCalls = 0
    /\ NoBrowser
    /\ Started

\* one request, of every shape, at a server with no other request in flight;
\* the cache directory holds an entry only for the key of that request
RouteInit ==
    /\ call \in {[fn |-> "request", req |-> q] : q \in Requests \cup RenderRequests}
    /\ ret = Pending
    /\ config = RouterConfig
    /\ \E d \in LeftBehind :
          /\ d.meta # << >> =>
                GetCacheKey(call.req.origin \o OriginalUrl(call.req), <<"desktop">>)
                   = LeftKey
          /\ htmlFile = d.html
          /\ metaFile = d.meta
    /\ now = 0
    /\ procs = [p \in Slots |-> IdleProc]
    /\ activeRequests = 0
    /\ log = IdleProc
    /\ nCalls = 0
    /\ NoBrowser
    /\ Started

RouteNext ==
    \/ nCalls = 0 /\ call.fn = "request" /\ Receive(1, call.req)
    \/ Serve(1)
    \/ Tick

SpecRoute == RouteInit /\ [][RouteNext]_vars

\* the same request with the clock sampled every BROWSER_CLEANUP_TIMEOUT_MS,
\* so that the cleanup timer of the render is seen to the sample
TickCleanup ==
    /\ TimePasses(BROWSER_CLEANUP_TIMEOUT_MS)
    /\ UNCHANGED <<lifeVars, browserVars, call, ret, config, htmlFile, metaFile, procs, activeRequests, log, nCalls>>

CleanupNext ==
    \/ nCalls = 0 /\ call.fn = "request" /\ Receive(1, call.req)
    \/ Serve(1)
    \/ TickCleanup

SpecCleanup == RouteInit /\ [][CleanupNext]_vars

\* the event loop runs the callback of a timer that is due, and time passes
SpecCleanupFair ==
    /\ SpecCleanup
    /\ WF_vars(Timer504(1))
    /\ WF_vars(RenderCleanupTimeout(1))
    /\ WF_vars(TickCleanup)

-----------------------------------------------------------------------------
(* waitForReadiness (index.ts:1266-1343)                                   *)

Max(a, b) == IF a >= b THEN a ELSE b
Min(a, b) == IF a <= b THEN a ELSE b

\* remainingTimeout (index.ts:1274), read at time t
RemainingTimeout(rec, timeoutMs, t) == Max(1000, timeoutMs - (t - rec.start))

\* what an awaited call of the driver does: it resolves, it rejects with its
\* TimeoutError once the timeout it was given has passed, or it rejects with
\* another error. The text of an error is the driver's: its TimeoutError
\* names the call and the time ("Timeout", capitalised) and carries the call
\* log, with the URL that was navigated to.
TimeoutMessages ==
    { <<"page.goto: ", "Timeout", " exceeded.", "navigating to ", "/", "p">>,
      <<"page.goto: ", "Timeout", " exceeded.", "navigating to ", "/", "timeout">> }
OtherMessages ==
    { <<"page.goto: ", "net::ERR_CONNECTION_REFUSED at ", "/", "p">>,
      <<"page.goto: ", "net::ERR_CONNECTION_REFUSED at ", "/", "timeout">> }
Outcomes == {"ok", "timeout", "error"}
LoadOutcomes ==
    {[kind |-> "ok", message |-> <<>>]}
       \cup {[kind |-> "timeout", message |-> m] : m \in TimeoutMessages}
       \cup {[kind |-> "error", message |-> m] : m \in OtherMessages}

\* how long a call that resolves may take, short of its timeout
Durations == {0, 1000, 20000}

\* the time an awaited call with this timeout takes: the whole timeout when
\* it times out, less when it resolves, and none when it fails at once
Takes(outcome, budget) ==
    IF outcome = "ok" THEN {d \in Durations : d < budget}
    ELSE IF outcome = "timeout" THEN {budget}
    ELSE {0}

\* the await has been given this timeout and has taken this time
Awaited(rec, step, outcome, budget) ==
    [rec EXCEPT !.budgets = Append(@, budget),
                !.timedOut = IF outcome = "timeout" THEN @ \cup {step} ELSE @]

\* the outer catch (index.ts:1337-1342): an error is thrown on unless its
\* message includes "timeout", in lower case
OuterCatch(rec, message) ==
    IF ~Includes(message, <<"timeout">>)
    THEN [rec EXCEPT !.pc = "w_threw", !.thrown = message]
    ELSE [rec EXCEPT !.pc = "w_returned"]

\* the catch of a later step (index.ts:1290-1292, 1307-1309, 1325-1327,
\* 1333-1335): whatever the await did, the protocol goes on
InnerCatch(rec, outcome, next) == [rec EXCEPT !.pc = next]

\* render() calls waitForReadiness(page, url, config, false) (index.ts:1423)
CallWaitForReadiness(p) ==
    /\ call.fn = "waitForReadiness"
    /\ procs[p].pc = "idle"
    /\ nCalls = 0
    /\ nCalls' = 1
    /\ procs' = [procs EXCEPT ![p] =
          [IdleProc EXCEPT !.pc = "w_load", !.kind = "api",
                           !.op = "waitForReadiness", !.start = now]]
    /\ UNCHANGED <<lifeVars, browserVars, call, ret, config, now, htmlFile, metaFile, activeRequests, log>>

\* step 1 (index.ts:1277-1285): page.goto, or the wait for the load event
WaitLoad(p, outcome) ==
    LET rec == procs[p]
        budget == IF ~call.alreadyNavigated THEN call.config.timeoutMs
                  ELSE RemainingTimeout(rec, call.config.timeoutMs, now)
    IN /\ rec.pc = "w_load"
       /\ \E took \in Takes(outcome.kind, budget) : now' = now + took
       /\ procs' = [procs EXCEPT ![p] =
             IF outcome.kind = "ok"
             THEN [Awaited(rec, <<"w_load", 1>>, "ok", budget) EXCEPT !.pc = "w_idle"]
             ELSE OuterCatch(Awaited(rec, <<"w_load", 1>>, outcome.kind, budget),
                             outcome.message)]
       /\ UNCHANGED <<lifeVars, browserVars, call, ret, config, htmlFile, metaFile, activeRequests, log, nCalls>>

\* steps 2 and 4 (index.ts:1288-1292, 1331-1335): the waits for network idle
WaitNetworkIdle(p, outcome) ==
    LET rec == procs[p]
        R == RemainingTimeout(rec, call.config.timeoutMs, now)
        budget == IF rec.pc = "w_idle" THEN Min(15000, R) ELSE Min(10000, R)
        next == IF rec.pc = "w_idle" THEN "w_selector" ELSE "w_returned"
    IN /\ rec.pc \in {"w_idle", "w_idle2"}
       /\ \E took \in Takes(outcome, budget) : now' = now + took
       /\ procs' = [procs EXCEPT ![p] =
             InnerCatch(Awaited(rec, <<rec.pc, 1>>, outcome, budget), outcome, next)]
       /\ UNCHANGED <<lifeVars, browserVars, call, ret, config, htmlFile, metaFile, activeRequests, log, nCalls>>

\* step 3 (index.ts:1296-1310): the root selectors, one after the other, up
\* to the first that has a child
RootSelectors == 4
WaitForSelector(p, outcome) ==
    LET rec == procs[p]
        budget == Max(15000, RemainingTimeout(rec, call.config.timeoutMs, now))
        after == [Awaited(rec, <<"w_selector", rec.tried + 1>>, outcome, budget)
                     EXCEPT !.tried = @ + 1]
    IN /\ rec.pc = "w_selector"
       /\ \E took \in Takes(outcome, budget) : now' = now + took
       /\ procs' = [procs EXCEPT ![p] =
             IF outcome = "ok" THEN [after EXCEPT !.pc = "w_idle2"]
             ELSE IF after.tried < RootSelectors
                  THEN InnerCatch(after, outcome, "w_selector")
                  ELSE InnerCatch(after, outcome, "w_text")]
       /\ UNCHANGED <<lifeVars, browserVars, call, ret, config, htmlFile, metaFile, activeRequests, log, nCalls>>

\* the fallback of step 3 (index.ts:1313-1328): the poll for text content
WaitForFunction(p, outcome) ==
    LET rec == procs[p]
        budget == Max(10000, RemainingTimeout(rec, call.config.timeoutMs, now))
    IN /\ rec.pc = "w_text"
       /\ \E took \in Takes(outcome, budget) : now' = now + took
       /\ procs' = [procs EXCEPT ![p] =
             InnerCatch(Awaited(rec, <<"w_text", 1>>, outcome, budget), outcome, "w_idle2")]
       /\ UNCHANGED <<lifeVars, browserVars, call, ret, config, htmlFile, metaFile, activeRequests, log, nCalls>>

\* the timeoutMs of the configurations in use, and the default
ReadyTimeouts == {500, 10000, 30000}

ReadyInit ==
    /\ call \in {[fn |-> "waitForReadiness", config |-> [timeoutMs |-> t],
                   alreadyNavigated |-> FALSE] : t \in ReadyTimeouts}
    /\ ret = Pending
    /\ config = RouterConfig
    /\ now = 0
    /\ htmlFile = << >>
    /\ metaFile = << >>
    /\ procs = [p \in Slots |-> IdleProc]
    /\ activeRequests = 0
    /\ log = IdleProc
    /\ nCalls = 0
    /\ NoBrowser
    /\ Started

ReadyNext ==
    \/ CallWaitForReadiness(1)
    \/ \E outcome \in LoadOutcomes : WaitLoad(1, outcome)
    \/ \E outcome \in Outcomes : WaitNetworkIdle(1, outcome)
    \/ \E outcome \in Outcomes : WaitForSelector(1, outcome)
    \/ \E outcome \in Outcomes : WaitForFunction(1, outcome)

SpecReady == ReadyInit /\ [][ReadyNext]_vars

\* one request from outside, and the requests of the browser that renders
\* its page
NestedNext ==
    \/ nCalls = 0 /\ call.fn = "request" /\ Receive(1, call.req)
    \/ \E p \in Slots : Serve(p)
    \/ \E s \in Slots, type \in ResourceTypes, path \in BrowserPaths :
          BrowserRequest(1, s, type, path)
    \/ Tick

SpecNested == RouteInit /\ [][NestedNext]_vars

-----------------------------------------------------------------------------
(* launchBrowser (index.ts:1209-1256) and its callers                      *)

MaxLaunches == 3       \* launches of chromium started in one run
MaxLaunchCalls == 4    \* calls of launchBrowser in one run

serverVars ==
    <<call, ret, config, now, htmlFile, metaFile, activeRequests, log, lifeVars>>

\* the callers that await launch id resume with its outcome
Settle(id, outcome) ==
    [p \in Slots |->
        IF procs[p].pc = "launch_wait" /\ procs[p].awaits = id
        THEN [procs[p] EXCEPT !.pc = "done", !.result = outcome]
        ELSE procs[p]]

\* launchBrowser is called (index.ts:1210-1218, 1255): the handle when there
\* is one, else the pending launch, else a launch of its own
LaunchBrowser(p) ==
    LET caller == [IdleProc EXCEPT !.kind = "launch", !.op = "launchBrowser"]
    IN /\ procs[p].pc \in {"idle", "done"}
       /\ nCalls < MaxLaunchCalls
       /\ nCalls' = nCalls + 1
       /\ IF browser # 0
          THEN /\ procs' = [procs EXCEPT ![p] =
                     [caller EXCEPT !.pc = "done", !.result = Some(browser)]]
               /\ UNCHANGED browserVars
          ELSE IF browserLaunchPromise # 0
          THEN /\ procs' = [procs EXCEPT ![p] =
                     [caller EXCEPT !.pc = "launch_wait",
                                    !.awaits = browserLaunchPromise]]
               /\ UNCHANGED browserVars
          ELSE /\ launches.started < MaxLaunches
               /\ browserLaunchPromise' = launches.started + 1
               /\ launches' = [launches EXCEPT !.started = @ + 1,
                                               !.pending = @ \cup {launches.started + 1}]
               /\ procs' = [procs EXCEPT ![p] =
                     [caller EXCEPT !.pc = "launch_wait",
                                    !.awaits = launches.started + 1]]
               /\ UNCHANGED browser
       /\ UNCHANGED serverVars

\* chromium.launch resolves (index.ts:1220-1237): the handle is kept, the
\* disconnect handler registered, and the promise resolves with the handle
LaunchResolves(id) ==
    /\ id \in launches.pending
    /\ browser' = id
    /\ launches' = [launches EXCEPT !.pending = @ \ {id}, !.connected = @ \cup {id}]
    /\ procs' = Settle(id, Some(id))
    /\ UNCHANGED <<browserLaunchPromise, nCalls, serverVars>>

\* chromium.launch rejects (index.ts:1238-1252): the latch is cleared and
\* the promise rejects
LaunchRejects(id) ==
    /\ id \in launches.pending
    /\ browserLaunchPromise' = 0
    /\ launches' = [launches EXCEPT !.pending = @ \ {id}]
    /\ procs' = Settle(id, Null)
    /\ UNCHANGED <<browser, nCalls, serverVars>>

\* A disconnect handler that clears the handle and leaves the latch.
DisconnectedKeepsLatch(id) ==
    /\ id \in launches.connected
    /\ browser' = 0
    /\ launches' = [launches EXCEPT !.connected = @ \ {id}]
    /\ UNCHANGED <<browserLaunchPromise, procs, nCalls, serverVars>>

\* the 'disconnected' event of a launched browser (index.ts:1233-1236)
Disconnected(id) ==
    /\ id \in launches.connected
    /\ browser' = 0
    /\ browserLaunchPromise' = 0
    /\ launches' = [launches EXCEPT !.connected = @ \ {id}]
    /\ UNCHANGED <<procs, nCalls, serverVars>>

BrowserInit ==
    /\ call = NoCall
    /\ ret = Pending
    /\ config = RouterConfig
    /\ Quiet

BrowserNext ==
    \/ \E p \in Slots : LaunchBrowser(p)
    \/ \E id \in 1..MaxLaunches : LaunchResolves(id)
    \/ \E id \in 1..MaxLaunches : LaunchRejects(id)
    \/ \E id \in 1..MaxLaunches : Disconnected(id)

SpecBrowser == BrowserInit /\ [][BrowserNext]_vars

-----------------------------------------------------------------------------
(* ensureCacheDir (cache.ts:25-47) and its callers                         *)

MaxMkdirs == 3         \* creations of the cache directory started in one run
MaxDirCalls == 4       \* calls of ensureCacheDir in one run

dirVars == <<cacheDirInitialized, cacheDirPromise, mkdirs>>
restVars ==
    <<call, ret, config, now, htmlFile, metaFile, activeRequests, log,
      browserVars, cleanupInterval, exited>>

\* a caller resumes after ensureCacheDir: startCleanupInterval goes on to its
\* startup step (cache.ts:64-66) and rejects when the creation failed
AfterEnsure(rec, outcome) ==
    IF rec.op = "startCleanupInterval" /\ outcome.ok
    THEN [rec EXCEPT !.pc = "start_branch"]
    ELSE [rec EXCEPT !.pc = "done", !.result = outcome]

\* the callers that await creation id resume with its outcome
SettleDir(id, outcome) ==
    [p \in Slots |->
        IF procs[p].pc = "ensure_wait" /\ procs[p].awaits = id
        THEN AfterEnsure(procs[p], outcome)
        ELSE procs[p]]

\* get, set, cleanup or startCleanupInterval awaits ensureCacheDir
\* (cache.ts:26-32, 46; called at 64, 142, 203, 263): nothing to do once the
\* directory is there, else the pending creation, else a creation of its own
EnsureCacheDirBy(p, caller) ==
    /\ procs[p].pc \in {"idle", "done"}
    /\ nCalls < MaxDirCalls
    /\ nCalls' = nCalls + 1
    /\ IF cacheDirInitialized
       THEN /\ procs' = [procs EXCEPT ![p] = AfterEnsure(caller, Some("ready"))]
            /\ UNCHANGED dirVars
       ELSE IF cacheDirPromise # 0
       THEN /\ procs' = [procs EXCEPT ![p] =
                  [caller EXCEPT !.pc = "ensure_wait",
                                 !.awaits = cacheDirPromise]]
            /\ UNCHANGED dirVars
       ELSE /\ mkdirs.started < MaxMkdirs
            /\ cacheDirPromise' = mkdirs.started + 1
            /\ mkdirs' = [mkdirs EXCEPT !.started = @ + 1,
                                        !.pending = @ \cup {mkdirs.started + 1}]
            /\ procs' = [procs EXCEPT ![p] =
                  [caller EXCEPT !.pc = "ensure_wait",
                                 !.awaits = mkdirs.started + 1]]
            /\ UNCHANGED cacheDirInitialized
    /\ UNCHANGED restVars

\* get, set or cleanup is called and awaits ensureCacheDir
EnsureCacheDir(p, op) ==
    EnsureCacheDirBy(p, [IdleProc EXCEPT !.kind = "api", !.op = op])

\* fs.mkdir resolves (cache.ts:33-36): the directory is there
MkdirResolves(id) ==
    /\ id \in mkdirs.pending
    /\ cacheDirInitialized' = TRUE
    /\ mkdirs' = [mkdirs EXCEPT !.pending = @ \ {id}]
    /\ procs' = SettleDir(id, Some("ready"))
    /\ UNCHANGED <<cacheDirPromise, nCalls, restVars>>

\* A failed creation that leaves the latch set.
MkdirRejectsKeepsLatch(id) ==
    /\ id \in mkdirs.pending
    /\ mkdirs' = [mkdirs EXCEPT !.pending = @ \ {id}]
    /\ procs' = SettleDir(id, Null)
    /\ UNCHANGED <<cacheDirInitialized, cacheDirPromise, nCalls, restVars>>

\* fs.mkdir rejects (cache.ts:37-43): the latch is cleared and the promise
\* rejects
MkdirRejects(id) ==
    /\ id \in mkdirs.pending
    /\ cacheDirPromise' = 0
    /\ mkdirs' = [mkdirs EXCEPT !.pending = @ \ {id}]
    /\ procs' = SettleDir(id, Null)
    /\ UNCHANGED <<cacheDirInitialized, nCalls, restVars>>

\* the cache module has been loaded: its own call of ensureCacheDir
\* (cache.ts:50) has started the first creation
ModuleLoaded ==
    /\ cacheDirInitialized = FALSE
    /\ cacheDirPromise = 1
    /\ mkdirs = [started |-> 1, pending |-> {1}]
    /\ cleanupInterval = NoInterval
    /\ exited = FALSE

DirOps == {"get", "set", "cleanup"}

DirInit ==
    /\ call = NoCall
    /\ ret = Pending
    /\ config = RouterConfig
    /\ now = 0
    /\ htmlFile = << >>
    /\ metaFile = << >>
    /\ procs = [p \in Slots |-> IdleProc]
    /\ activeRequests = 0
    /\ log = IdleProc
    /\ nCalls = 0
    /\ NoBrowser
    /\ ModuleLoaded

DirNext ==
    \/ \E p \in Slots, op \in DirOps : EnsureCacheDir(p, op)
    \/ \E id \in 1..MaxMkdirs : MkdirResolves(id)
    \/ \E id \in 1..MaxMkdirs : MkdirRejects(id)

SpecDir == DirInit /\ [][DirNext]_vars

-----------------------------------------------------------------------------
(* startCleanupInterval (cache.ts:57-100) and the periodic cleanup         *)

\* startCleanupInterval is called with nothing scheduled before: it awaits
\* ensureCacheDir (cache.ts:57-64)
StartCleanupInterval(p, kind, intervalMinutes, clearOnStartup) ==
    /\ ~cleanupInterval.set
    /\ EnsureCacheDirBy(p,
          [IdleProc EXCEPT !.kind = kind, !.op = "startCleanupInterval",
                           !.args = [intervalMinutes |-> intervalMinutes,
                                     clearOnStartup |-> clearOnStartup],
                           !.before = [html |-> htmlFile, meta |-> metaFile]])

\* the call at server start (index.ts:194): the interval of the loaded
\* configuration, or 60 minutes when it is 0, and its flag, or true when it
\* has none
ServerStart(p) ==
    /\ call.fn = "start"
    /\ nCalls = 0
    /\ StartCleanupInterval(p, "start",
          IF config.cacheCleanupInterval = 0 THEN 60
          ELSE config.cacheCleanupInterval,
          IF Has(config, "clearCacheOnStartup") THEN config.clearCacheOnStartup
          ELSE TRUE)

\* a call of the exported function with arguments of the caller's own
DirectStart(p) ==
    /\ call.fn = "startCleanupInterval"
    /\ nCalls = 0
    /\ StartCleanupInterval(p, "api", call.intervalMinutes, call.clearOnStartup)

\* the startup step is over (cache.ts:89-99): setInterval, and the call
\* resolves; what the cache directory then holds is kept as its result
Scheduled(rec) ==
    [rec EXCEPT !.pc = "done", !.pending = {},
                !.result = Some([html |-> htmlFile', meta |-> metaFile'])]

\* the startup step begins (cache.ts:67-87): with clearOnStartup the readdir
\* and the filter on .html and .meta, and the unlinks of the files listed;
\* without it a call of cache.cleanup(), which runs in slot s
StartupStep(p, s) ==
    LET rec == procs[p]
        cacheFiles == {f \in DirFiles : f[1] \in {"html", "meta"}}
    IN /\ rec.pc = "start_branch"
       /\ s # p
       /\ procs[s].pc \in {"idle", "done"}
       /\ UNCHANGED <<htmlFile, metaFile>>
       /\ IF rec.args.clearOnStartup
          THEN IF cacheFiles = {}
               THEN /\ procs' = [procs EXCEPT ![p] = Scheduled(rec)]
                    /\ cleanupInterval' = Interval(rec.args.intervalMinutes, now)
               ELSE /\ procs' = [procs EXCEPT ![p] =
                          [rec EXCEPT !.pc = "start_unlink", !.pending = cacheFiles]]
                    /\ UNCHANGED cleanupInterval
          ELSE /\ procs' = [procs EXCEPT
                     ![p] = [rec EXCEPT !.pc = "start_cleanup", !.cleanups = @ + 1,
                                        !.start = now],
                     ![s] = [IdleProc EXCEPT !.pc = "cleanup_readdir", !.kind = "api",
                                             !.op = "cleanup", !.start = now,
                                             !.before = [html |-> htmlFile,
                                                         meta |-> metaFile]]]
               /\ UNCHANGED cleanupInterval
       /\ UNCHANGED <<cacheDirInitialized, cacheDirPromise, mkdirs, exited, browserVars, call, ret, config, now, activeRequests, log, nCalls>>

\* the unlinks of the startup clear, completing in any order (cache.ts:73);
\* after the last of them the timer is set
StartupUnlink(p, f) ==
    LET rec == procs[p]
        left == rec.pending \ {f}
    IN /\ rec.pc = "start_unlink"
       /\ f \in rec.pending
       /\ htmlFile' = IF f[1] = "html" THEN Remove(htmlFile, f[2]) ELSE htmlFile
       /\ metaFile' = IF f[1] = "meta" THEN Remove(metaFile, f[2]) ELSE metaFile
       /\ procs' = [procs EXCEPT ![p] =
             IF left = {} THEN Scheduled(rec) ELSE [rec EXCEPT !.pending = left]]
       /\ cleanupInterval' = IF left = {} THEN Interval(rec.args.intervalMinutes, now)
                             ELSE cleanupInterval
       /\ UNCHANGED <<cacheDirInitialized, cacheDirPromise, mkdirs, exited, browserVars, call, ret, config, now, activeRequests, log, nCalls>>

\* the cache.cleanup() of the startup step has returned (cache.ts:82): the
\* timer is set
StartupCleanupReturns(p, s) ==
    LET rec == procs[p]
    IN /\ rec.pc = "start_cleanup"
       /\ procs[s].op = "cleanup" /\ procs[s].pc = "done"
       /\ UNCHANGED <<htmlFile, metaFile>>
       /\ procs' = [procs EXCEPT ![p] = Scheduled(rec)]
       /\ cleanupInterval' = Interval(rec.args.intervalMinutes, now)
       /\ UNCHANGED <<cacheDirInitialized, cacheDirPromise, mkdirs, exited, browserVars, call, ret, config, now, activeRequests, log, nCalls>>

\* the callback of setInterval (cache.ts:93-97): a call of cache.cleanup(),
\* which runs in slot s
CleanupIntervalFires(s) ==
    /\ cleanupInterval.set
    /\ ~exited
    /\ now >= cleanupInterval.due
    /\ procs[s].pc \in {"idle", "done"}
    /\ procs[s].op # "startCleanupInterval"
    /\ cleanupInterval' = [cleanupInterval EXCEPT !.due = @ + cleanupInterval.ms]
    /\ procs' = [procs EXCEPT ![s] =
          [IdleProc EXCEPT !.pc = "cleanup_readdir", !.kind = "interval",
                           !.op = "cleanup", !.start = now,
                           !.before = [html |-> htmlFile, meta |-> metaFile]]]
    /\ UNCHANGED <<cacheDirInitialized, cacheDirPromise, mkdirs, exited, browserVars, call, ret, config, now, htmlFile, metaFile, activeRequests, log, nCalls>>

\* the content of config.json at the start of the server
StartupFiles ==
    { Restrict([hosts |-> <<>>, clearCacheOnStartup |-> c, cacheCleanupInterval |-> 1], S) :
        c \in BOOLEAN,
        S \in { {"hosts"}, {"hosts", "clearCacheOnStartup"},
                {"hosts", "clearCacheOnStartup", "cacheCleanupInterval"} } }

StartupInit ==
    /\ call \in {[fn |-> "start", fileConfig |-> f] : f \in StartupFiles}
          \cup {[fn |-> "startCleanupInterval", fileConfig |-> [hosts |-> <<>>],
                  intervalMinutes |-> 1, clearOnStartup |-> c] : c \in BOOLEAN}
    /\ ret = Pending
    /\ config = LoadConfig(call.fileConfig, << >>)
    /\ now = 0
    /\ \E d \in StoredDirs : htmlFile = d.html /\ metaFile = d.meta
    /\ procs = [p \in Slots |-> IdleProc]
    /\ activeRequests = 0
    /\ log = IdleProc
    /\ nCalls = 0
    /\ NoBrowser
    /\ ModuleLoaded

StartupNext ==
    \/ ServerStart(1)
    \/ DirectStart(1)
    \/ MkdirResolves(1)
    \/ StartupStep(1, 2)
    \/ \E f \in procs[1].pending : StartupUnlink(1, f)
    \/ StartupCleanupReturns(1, 2)
    \/ CleanupIntervalFires(2)
    \/ CleanupReaddir(2)
    \/ \E f \in procs[2].pending : CleanupFile(2, f)
    \/ Tick

SpecStartup == StartupInit /\ [][StartupNext]_vars

-----------------------------------------------------------------------------
(* The signal handlers (index.ts:836-844, 1502-1514)                       *)

Signals == {"SIGTERM", "SIGINT"}

\* stopCleanupInterval (cache.ts:102-108)
StopCleanupInterval(interval) == IF interval.set THEN NoInterval ELSE interval

\* a signal arrives: its listeners run one after the other in the order of
\* their registration, the renderer module's first (it is imported by the
\* router, index.ts:8), then the router's. The renderer's listener
\* (index.ts:1502-1507) exits at once when there is no browser; with a
\* browser it starts browser.close() and is suspended at the await, and the
\* router's listener (index.ts:836-839) stops the timer and exits.
Signal(sig) ==
    /\ ~exited
    /\ call' = [fn |-> "signal", sig |-> sig]
    /\ exited' = TRUE
    /\ IF browser # 0
       THEN /\ launches' = [launches EXCEPT !.closing = @ \cup {browser}]
            /\ cleanupInterval' = StopCleanupInterval(cleanupInterval)
       ELSE UNCHANGED <<launches, cleanupInterval>>
    /\ UNCHANGED <<browser, browserLaunchPromise, cacheDirInitialized,
                   cacheDirPromise, mkdirs, ret, config, now, htmlFile, metaFile,
                   procs, activeRequests, log, nCalls>>

\* a server before or after startCleanupInterval has set its timer
ShutdownInit ==
    /\ call = NoCall
    /\ ret = Pending
    /\ config = RouterConfig
    /\ now = 0
    /\ htmlFile = << >>
    /\ metaFile = << >>
    /\ procs = [p \in Slots |-> IdleProc]
    /\ activeRequests = 0
    /\ log = IdleProc
    /\ nCalls = 0
    /\ NoBrowser
    /\ cacheDirInitialized = TRUE
    /\ cacheDirPromise = 1
    /\ mkdirs = [started |-> 1, pending |-> {}]
    /\ cleanupInterval \in {NoInterval, Interval(60, 0)}
    /\ exited = FALSE

\* nothing runs in a process that has exited
ShutdownNext ==
    \/ ~exited /\ \E p \in Slots : LaunchBrowser(p)
    \/ ~exited /\ \E id \in 1..MaxLaunches : LaunchResolves(id)
    \/ ~exited /\ \E id \in 1..MaxLaunches : LaunchRejects(id)
    \/ ~exited /\ \E id \in 1..MaxLaunches : Disconnected(id)
    \/ \E sig \in Signals : Signal(sig)

SpecShutdown == ShutdownInit /\ [][ShutdownNext]_vars

-----------------------------------------------------------------------------
(* Failing file operations of cache.get and cache.set                      *)

\* the metadata read fails with an error other than ENOENT (cache.ts:151-159):
\* logged, and get returns null
GetReadMetaFails(p) ==
    LET rec == procs[p]
    IN /\ rec.pc = "get_meta"
       /\ procs' = [procs EXCEPT ![p] =
             AfterGet([rec EXCEPT !.faults = @ \cup {"read_meta"}], Null)]
       /\ UNCHANGED <<lifeVars, browserVars, call, ret, config, now, htmlFile, metaFile, activeRequests, log, nCalls>>

\* an unlink of an expired entry fails (cache.ts:167): the rejection is
\* swallowed and the file stays
GetUnlinkFails(p, f) ==
    LET rec == [procs[p] EXCEPT !.faults = @ \cup {"unlink"}]
        left == rec.pending \ {f}
    IN /\ rec.pc = "get_unlink"
       /\ f \in rec.pending
       /\ procs' = [procs EXCEPT ![p] =
             IF left = {} THEN AfterGet(rec, Null) ELSE [rec EXCEPT !.pending = left]]
       /\ UNCHANGED <<lifeVars, browserVars, call, ret, config, now, htmlFile, metaFile, activeRequests, log, nCalls>>

\* the HTML read fails with an error other than ENOENT (cache.ts:186-188):
\* logged, and get returns null
GetReadHtmlFails(p) ==
    LET rec == procs[p]
    IN /\ rec.pc = "get_html"
       /\ procs' = [procs EXCEPT ![p] =
             AfterGet([rec EXCEPT !.faults = @ \cup {"read_html"}], Null)]
       /\ UNCHANGED <<lifeVars, browserVars, call, ret, config, now, htmlFile, metaFile, activeRequests, log, nCalls>>

\* the unlink of a dangling metadata file fails (cache.ts:183): swallowed
GetHealFails(p) ==
    LET rec == procs[p]
    IN /\ rec.pc = "get_heal"
       /\ procs' = [procs EXCEPT ![p] =
             AfterGet([rec EXCEPT !.faults = @ \cup {"unlink"}], Null)]
       /\ UNCHANGED <<lifeVars, browserVars, call, ret, config, now, htmlFile, metaFile, activeRequests, log, nCalls>>

\* what a failed fs.writeFile leaves: the file as it was (the open failed) or
\* a file cut short (the write failed after the truncating open)
WriteLeaves == {"kept", "truncated"}

FailedWrite(f, k, file, html, meta) ==
    [html |-> IF file = "html" /\ f = "truncated" THEN Write(html, k, "") ELSE html,
     meta |-> IF file = "meta" /\ f = "truncated" THEN Write(meta, k, Corrupt) ELSE meta]

\* A failed write that escapes set as a rejection: renderPage's catch takes
\* it for a render error.
SetWriteFailsThrows(p, f, leaves) ==
    LET rec == procs[p]
        k == KeyOf(rec)
        dir == FailedWrite(leaves, k, f, htmlFile, metaFile)
        failed == [rec EXCEPT !.faults = @ \cup {"write"}, !.renderErr = "set"]
    IN /\ rec.pc = "set_write"
       /\ f \in rec.pending
       /\ htmlFile' = dir.html
       /\ metaFile' = dir.meta
       /\ procs' = [procs EXCEPT ![p] =
             IF rec.kind = "api"
             THEN [failed EXCEPT !.pc = "done", !.pending = {}, !.thrown = <<"EACCES">>]
             ELSE Reply(failed, FileResp(rec.dec.file))]
       /\ UNCHANGED <<lifeVars, browserVars, call, ret, config, now, activeRequests, log, nCalls>>

\* one of the two writes of cache.set fails (cache.ts:216-224): Promise.all
\* rejects at once, set logs and returns false; a write still in flight goes
\* on without being awaited
SetWriteFails(p, f, leaves) ==
    LET rec == procs[p]
        k == KeyOf(rec)
        left == rec.pending \ {f}
        dir == FailedWrite(leaves, k, f, htmlFile, metaFile)
        failed == [rec EXCEPT !.faults = @ \cup {"write"}]
    IN /\ rec.pc = "set_write"
       /\ f \in rec.pending
       /\ htmlFile' = dir.html
       /\ metaFile' = dir.meta
       /\ procs' = [procs EXCEPT ![p] =
             [AfterSet(failed, FALSE) EXCEPT
                 !.orphan = IF left = {} THEN "none" ELSE CHOOSE g \in left : TRUE]]
       /\ UNCHANGED <<lifeVars, browserVars, call, ret, config, now, activeRequests, log, nCalls>>

\* the write that was in flight when set returned false settles: it wrote its
\* file, or it failed as well
SetWriteOrphan(p, outcome) ==
    LET rec == procs[p]
        k == KeyOf(rec)
        f == rec.orphan
        dir == FailedWrite(outcome, k, f, htmlFile, metaFile)
    IN /\ f # "none"
       /\ htmlFile' = IF outcome = "written" /\ f = "html"
                      THEN Write(htmlFile, k, rec.html) ELSE dir.html
       /\ metaFile' = IF outcome = "written" /\ f = "meta"
                      THEN Write(metaFile, k,
                                 [expiresAt |-> rec.expiresAt, url |-> rec.url,
                                  deviceType |-> rec.device])
                      ELSE dir.meta
       /\ procs' = [procs EXCEPT ![p] = [rec EXCEPT !.orphan = "none"]]
       /\ UNCHANGED <<lifeVars, browserVars, call, ret, config, now, activeRequests, log, nCalls>>

FaultyOps(p) ==
    \/ GetReadMetaFails(p)
    \/ \E f \in {"html", "meta"} : GetUnlinkFails(p, f)
    \/ GetReadHtmlFails(p)
    \/ GetHealFails(p)
    \/ \E f \in {"html", "meta"}, l \in WriteLeaves : SetWriteFails(p, f, l)
    \/ \E o \in WriteLeaves \cup {"written"} : SetWriteOrphan(p, o)

\* the cache directory of the failing runs: what earlier requests left for
\* the key, or an entry whose metadata file does not parse
FaultDirs ==
    LeftBehind
    \cup { [html |-> Write(<< >>, LeftKey, "p1"),
            meta |-> Write(<< >>, LeftKey, Corrupt)] }

FaultUrl == Https(<<"b", ".", "x">>) \o <<"/", "p">>

\* one request at a server, or one direct call of cache.get or cache.set
FaultsInit ==
    /\ call \in {[fn |-> "request", req |-> q] : q \in Requests}
          \cup {[fn |-> "get"]}
          \cup {[fn |-> "set", html |-> h, ttl |-> t] :
                   h \in CacheHtmls, t \in CacheTtls}
    /\ ret = Pending
    /\ config = RouterConfig
    /\ \E d \in FaultDirs :
          /\ (d.meta # << >> /\ call.fn = "request") =>
                GetCacheKey(call.req.origin \o OriginalUrl(call.req), <<"desktop">>)
                   = LeftKey
          /\ htmlFile = d.html
          /\ metaFile = d.meta
    /\ now = 0
    /\ procs = [p \in Slots |-> IdleProc]
    /\ activeRequests = 0
    /\ log = IdleProc
    /\ nCalls = 0
    /\ NoBrowser
    /\ Started

FaultsNext ==
    \/ nCalls = 0 /\ call.fn = "request" /\ Receive(1, call.req)
    \/ nCalls = 0 /\ call.fn = "get" /\ CallGet(FaultUrl, <<"desktop">>)
    \/ nCalls = 0 /\ call.fn = "set"
          /\ CallSet(FaultUrl, call.html, <<"desktop">>, call.ttl)
    \/ Serve(1)
    \/ FaultyOps(1)
    \/ Tick

SpecFaults == FaultsInit /\ [][FaultsNext]_vars

-----------------------------------------------------------------------------
(* Calls of get, set and cleanup in flight together on one key             *)

MaxRaceCalls == 4      \* calls of the cache interface in one run

RaceUrl == <<"u">>
RaceDevice == <<"desktop">>
RaceKey == GetCacheKey(RaceUrl, RaceDevice)
RaceHtmls == {"p1", "p2"}

SetInFlight == \E t \in Slots : procs[t].op = "set" /\ InFlight(procs[t])

\* cache.set is called while other calls may be in flight; the call is kept
\* in the history of the run with its payload and its own expiry
\* (cache.ts:208)
RaceSet(p, html, cacheTtl) ==
    /\ procs[p].pc \in {"idle", "done"}
    /\ nCalls < MaxRaceCalls
    /\ nCalls' = nCalls + 1
    /\ call' = [call EXCEPT !.sets =
                  Append(@, [html |-> html, expiresAt |-> now + cacheTtl * 1000,
                             solo |-> ~SetInFlight])]
    /\ procs' = [procs EXCEPT ![p] =
          [IdleProc EXCEPT !.pc = "set_write", !.kind = "api", !.op = "set",
                           !.url = RaceUrl, !.device = RaceDevice, !.html = html,
                           !.ttl = cacheTtl, !.expiresAt = now + cacheTtl * 1000,
                           !.pending = {"html", "meta"}, !.start = now]]
    /\ UNCHANGED <<lifeVars, browserVars, ret, config, now, htmlFile, metaFile, activeRequests, log>>

\* cache.get is called while other calls may be in flight
RaceGet(p) ==
    /\ procs[p].pc \in {"idle", "done"}
    /\ nCalls < MaxRaceCalls
    /\ nCalls' = nCalls + 1
    /\ procs' = [procs EXCEPT ![p] =
          [IdleProc EXCEPT !.pc = "get_meta", !.kind = "api", !.op = "get",
                           !.url = RaceUrl, !.device = RaceDevice, !.start = now,
                           !.before = [html |-> htmlFile, meta |-> metaFile]]]
    /\ UNCHANGED <<lifeVars, browserVars, call, ret, config, now, htmlFile, metaFile, activeRequests, log>>

\* cache.cleanup is called while other calls may be in flight
RaceCleanup(p) ==
    /\ procs[p].pc \in {"idle", "done"}
    /\ nCalls < MaxRaceCalls
    /\ nCalls' = nCalls + 1
    /\ procs' = [procs EXCEPT ![p] =
          [IdleProc EXCEPT !.pc = "cleanup_readdir", !.kind = "api", !.op = "cleanup",
                           !.start = now,
                           !.before = [html |-> htmlFile, meta |-> metaFile]]]
    /\ UNCHANGED <<lifeVars, browserVars, call, ret, config, now, htmlFile, metaFile, activeRequests, log>>

\* an empty cache directory and no call made
RaceInit ==
    /\ call = [fn |-> "race", sets |-> <<>>]
    /\ ret = Pending
    /\ config = RouterConfig
    /\ Quiet

RaceNext ==
    \/ \E p \in Slots, h \in RaceHtmls, t \in CacheTtls : RaceSet(p, h, t)
    \/ \E p \in Slots : RaceGet(p)
    \/ \E p \in Slots : RaceCleanup(p)
    \/ \E p \in Slots : GetReadMeta(p)
    \/ \E p \in Slots, f \in {"html", "meta"} : GetUnlink(p, f)
    \/ \E p \in Slots : GetReadHtml(p)
    \/ \E p \in Slots : GetHeal(p)
    \/ \E p \in Slots, f \in {"html", "meta"} : SetWrite(p, f)
    \/ \E p \in Slots : CleanupReaddir(p)
    \/ \E p \in Slots : \E f \in procs[p].pending : CleanupFile(p, f)
    \/ Tick

SpecRace == RaceInit /\ [][RaceNext]_vars

-----------------------------------------------------------------------------
(* One request whose render may also return an empty document              *)

EmptyPage == ""

WritesNext ==
    \/ nCalls = 0 /\ call.fn = "request" /\ Receive(1, call.req)
    \/ ServeWith(1, RenderedPages \cup {EmptyPage} \cup RenderFailures)
    \/ Tick

SpecWrites == RouteInit /\ [][WritesNext]_vars

Get(origin, userAgent, path) ==
    [ origin |-> origin, host |-> <<>>, userAgent |-> userAgent,
      internal |-> <<>>, path |-> path, query |-> <<>> ]

\* the requests of the concurrent runs: a bot at an ssr host, and a bot at
\* a smart-ssr host limited to one render
Arrivals ==
    { Get(Https(<<"b", ".", "x">>), <<"Googlebot">>, <<"/", "p">>),
      Get(Https(<<"a", ".", "x">>), <<"Googlebot">>, <<"/", "p">>) }

\* a request is handled in the first slot that holds none in flight
Next ==
    \/ \E p \in Slots, q \in Arrivals :
          /\ \A t \in 1..(p - 1) : InFlight(procs[t])
          /\ Receive(p, q)
    \/ \E p \in Slots : Serve(p)
    \/ Tick

Spec == ServerInit /\ [][Next]_vars

-----------------------------------------------------------------------------
(* Properties of the router                                                *)

Handled == {p \in Slots : procs[p].kind = "http"}

\* the hostname the router derives: from Origin when present, otherwise
\* from Host; none when Origin is not a URL or both are missing
HasHostname(q) ==
    IF q.origin # <<>> THEN ParseUrl(q.origin).ok ELSE HostHeaderName(q) # <<>>
HostnameOf(q) ==
    IF q.origin # <<>> THEN ParseUrl(q.origin).val.hostname ELSE HostHeaderName(q)

\* the request names a host that is configured, active and has an index.html
KnownHost(q) ==
    /\ HasHostname(q)
    /\ \E i \in GlobAt(config.hosts, HostnameOf(q)) : TRUE
    /\ Under(GetHostConfig(config, HostnameOf(q)).val.source, <<"/">> \o IndexHtml)
          \in FsFiles

UnknownHost(q) ==
    HasHostname(q) /\ GlobAt(config.hosts, HostnameOf(q)) = {}

StrategyOf(q) ==
    LET h == GetHostConfig(config, HostnameOf(q)).val
    IN IF Has(h, "strategy") THEN h.strategy ELSE config.strategy

BotAgent(q) ==
    \E i \in 1..Len(config.bots) :
        Includes(ToLowerCase(q.userAgent), ToLowerCase(config.bots[i]))

\* answered at once by the static serving code: a file, or its 404
ServedStatic(r) ==
    /\ r.pc = "done"
    /\ r.cacheReads = 0 /\ r.renderCalls = 0
    /\ \/ r.resp.kind = "file" /\ r.resp.body \in FsFiles
       \/ r.resp = ErrorResp(404)

\* handed to renderPage: the cache lookup, then the render engine on a miss
Dispatched(r) == r.cacheReads = 1 /\ r.dec.kind = "render"

\* C1: a request whose user-agent contains "renderx" in any letter case, or
\* that carries X-RenderX-Internal: true, never reaches the cache lookup or
\* the render engine, and is answered with a file or an error.
C1_NoLoop ==
    \A p \in Handled :
        LET r == procs[p]
        IN (IsInternalRender(r.req)
            \/ Includes(ToLowerCase(r.req.userAgent), <<"renderx">>))
           => /\ r.pc = "done"
              /\ r.renderCalls = 0 /\ r.admitted = 0 /\ r.cacheReads = 0
              /\ r.resp.kind \in {"file", "error"}

C1_Witness ==
    /\ procs[1].kind = "http" /\ procs[1].pc = "done"
    /\ procs[1].req.userAgent = <<"Googlebot", "RENDERX">>
    /\ procs[1].req.internal = <<>>
    /\ procs[1].req.origin = Https(<<"b", ".", "x">>)
    /\ procs[1].req.path = <<"/", "p">>
    /\ procs[1].resp = FileResp(Under(<<"a", "b">>, <<"/">> \o IndexHtml))

\* the regular files a path names under the source directories of the
\* active hosts
FilesAnywhere(path) ==
    {Under(config.hosts[i].source, path) :
        i \in {j \in 1..Len(config.hosts) : ActiveAt(config.hosts, j)}} \cap FsFiles

\* C3 as stated: a non-internal request whose hostname matches no active host
\* is answered 403, whatever its path.
C3_UnknownHost403 ==
    \A p \in Handled :
        LET r == procs[p]
        IN (~IsInternalRender(r.req) /\ UnknownHost(r.req))
           => r.pc = "done" /\ r.resp = ErrorResp(403)

\* C3 amended: a non-internal request whose hostname matches no active host
\* is answered 403 and served no file, except that a request without Origin
\* for a path with a file extension that names a regular file under some
\* active host's source directory is served such a file.
C3_UnknownHost403OrAnyHostFile ==
    \A p \in Handled :
        LET r == procs[p]
            q == r.req
        IN (~IsInternalRender(q) /\ UnknownHost(q))
           => /\ r.pc = "done"
              /\ IF q.origin = <<>> /\ PathExtname(q.path) # <<>>
                    /\ FilesAnywhere(q.path) # {}
                 THEN r.resp.kind = "file" /\ r.resp.body \in FilesAnywhere(q.path)
                 ELSE r.resp = ErrorResp(403)

C3_Witness ==
    /\ procs[1].kind = "http" /\ procs[1].pc = "done"
    /\ procs[1].req.origin = Https(<<"u", ".", "y">>)
    /\ procs[1].req.internal = <<>>
    /\ procs[1].req.path = <<"/", "f", ".", "j">>
    /\ procs[1].resp = ErrorResp(403)

\* the file or directory index a path other than "/" names under the source
\* directory of the request's host
DirectlyNamed(q) ==
    LET source == GetHostConfig(config, HostnameOf(q)).val.source
    IN {Under(source, q.path), Under(source, q.path \o <<"/">> \o IndexHtml)}
           \cap FsFiles

\* C5 as stated: at a known active host with an index.html, an internal
\* request, a renderx user-agent or a path with an extension is served
\* statically; any other request is served statically under csr, dispatched
\* to render under ssr, and under smart-ssr dispatched exactly for bots.
C5_DecisionTable ==
    \A p \in Handled :
        LET r == procs[p]
            q == r.req
        IN KnownHost(q)
           => IF \/ IsInternalRender(q)
                 \/ Includes(ToLowerCase(q.userAgent), <<"renderx">>)
                 \/ PathExtname(q.path) # <<>>
              THEN ServedStatic(r)
              ELSE IF StrategyOf(q) = "csr" THEN ServedStatic(r)
              ELSE IF StrategyOf(q) = "ssr" THEN Dispatched(r)
              ELSE IF BotAgent(q) THEN Dispatched(r) ELSE ServedStatic(r)

\* C5 amended: as stated, except that a request for a path other than "/"
\* that names an existing file, or a directory with an index.html, under the
\* host's source directory is served that file under every strategy.
C5_DecisionTableAfterDirectFile ==
    \A p \in Handled :
        LET r == procs[p]
            q == r.req
        IN KnownHost(q)
           => IF \/ IsInternalRender(q)
                 \/ Includes(ToLowerCase(q.userAgent), <<"renderx">>)
                 \/ PathExtname(q.path) # <<>>
              THEN ServedStatic(r)
              ELSE IF q.path # <<"/">> /\ DirectlyNamed(q) # {}
              THEN ServedStatic(r) /\ r.resp.body \in DirectlyNamed(q)
              ELSE IF StrategyOf(q) = "csr" THEN ServedStatic(r)
              ELSE IF StrategyOf(q) = "ssr" THEN Dispatched(r)
              ELSE IF BotAgent(q) THEN Dispatched(r) ELSE ServedStatic(r)

C5_Witness ==
    /\ procs[1].kind = "http"
    /\ procs[1].req.origin = Https(<<"b", ".", "x">>)
    /\ procs[1].req.userAgent = <<"Mozilla">>
    /\ procs[1].req.internal = <<>>
    /\ procs[1].req.path = <<"/", "p">>
    /\ Dispatched(procs[1])
    /\ procs[1].renderCalls = 1

\* C6 as stated: a dispatched request whose render failed is answered with
\* the index.html of its host, never with a 5xx status.
C6_RenderFailureServesIndex ==
    \A p \in Handled :
        LET r == procs[p]
        IN (r.pc = "done" /\ r.renderCalls = 1 /\ r.renderErr # "none")
           => /\ r.resp.status < 500
              /\ r.resp = FileResp(Under(
                    GetHostConfig(config, HostnameOf(r.req)).val.source,
                    <<"/">> \o IndexHtml))

InRender(rec) == rec.pc \in {"r_admit", "r_browse", "r_cleanup"}
Holding(rec) == rec.pc \in {"r_browse", "r_cleanup"}

\* C13: the active-render counter is never negative; it counts the render
\* calls that were admitted and have not yet released, so that each admitted
\* call releases once and a rejected call never; and it is 0 whenever no
\* render call is in progress.
C13_CounterBalanced ==
    /\ activeRequests >= 0
    /\ activeRequests = Cardinality({p \in Slots : Holding(procs[p])})
    /\ \A p \in Slots :
          LET r == procs[p]
          IN /\ r.released <= r.admitted /\ r.admitted <= 1
             /\ r.renderErr = "admission" => r.admitted = 0
             /\ Holding(r) => r.admitted = 1 /\ r.released = 0
             /\ ~InRender(r) => r.released = r.admitted
    /\ (\A p \in Slots : ~InRender(procs[p])) => activeRequests = 0

\* two requests are done, one rejected at admission and one whose render
\* succeeded after its request had timed out, and the counter is back at 0
C13_Witness ==
    \E p \in Slots, q \in Slots :
        /\ procs[p].pc = "done" /\ procs[p].renderErr = "admission"
        /\ procs[q].pc = "done" /\ procs[q].released = 1
        /\ procs[q].timer = "fired" /\ procs[q].renderErr = "none"
        /\ activeRequests = 0

\* C14: a step that takes a request past the admission check of render()
\* either finds the counter at or above the call's maxConcurrency, and then
\* leaves the counter alone and ends the call at once with the capacity
\* error, never entering the try block; or it increments the counter, enters
\* the try block, and the counter does not exceed the call's maxConcurrency.
C14_StrictAdmission ==
    [][\A p \in Slots :
          (procs[p].pc = "r_admit" /\ procs'[p].pc # "r_admit")
          => IF activeRequests >= procs[p].dec.eff.maxConcurrency
             THEN /\ activeRequests' = activeRequests
                  /\ procs'[p].renderErr = "admission"
                  /\ procs'[p].admitted = 0
                  /\ procs'[p].pc = "done"
             ELSE /\ activeRequests' = activeRequests + 1
                  /\ procs'[p].pc = "r_browse"
                  /\ procs'[p].admitted = 1
                  /\ activeRequests' <= procs[p].dec.eff.maxConcurrency]_vars

\* a request was rejected and answered with index.html while another
\* request holds as many renders as the rejected call's limit allows
C14_Witness ==
    \E p \in Slots, q \in Slots :
        /\ procs[p].pc = "done" /\ procs[p].renderErr = "admission"
        /\ procs[p].resp = FileResp(procs[p].dec.file)
        /\ Holding(procs[q])
        /\ activeRequests >= procs[p].dec.eff.maxConcurrency

\* the request path, normalized, contains ".." or resolves to a place that
\* is not the source directory of the request's host or below it
Traversal(q) ==
    LET sourcePath == SourcePathOf(GetHostConfig(config, HostnameOf(q)).val)
        normalizedPath == PathNormalize(IF StartsWith(q.path, <<"/">>)
                                        THEN Tail(q.path) ELSE q.path)
    IN \/ Includes(normalizedPath, DotDot)
       \/ ~Inside(sourcePath, PathResolve2(sourcePath, normalizedPath))

\* C15 as stated: a request with a valid Origin whose path is a traversal is
\* answered with 404 and with nothing else.
C15_Traversal404 ==
    \A p \in Handled :
        LET r == procs[p]
            q == r.req
        IN (q.origin # <<>> /\ IsValidOrigin(config, q.origin) /\ Traversal(q))
           => /\ r.dec.kind = "error" /\ r.dec.status = 404
              /\ r.pc = "done" => r.resp = ErrorResp(404)

\* the request's hostname matches an entry marked inactive and no active one
InactiveHost(q) ==
    /\ HasHostname(q)
    /\ \E i \in 1..Len(config.hosts) :
          /\ MatchesGlobPattern(config.hosts[i].host, HostnameOf(q))
          /\ Has(config.hosts[i], "isActive") /\ ~config.hosts[i].isActive
    /\ GlobAt(config.hosts, HostnameOf(q)) = {}

\* C16 as stated: a request whose hostname matches a host configuration
\* marked inactive is answered with 503.
C16_Inactive503 ==
    \A p \in Handled :
        LET r == procs[p]
        IN (InactiveHost(r.req) /\ r.pc = "done") => r.resp = ErrorResp(503)

\* the url parameter of a /render request names a page of a configured,
\* active host by an absolute URL that isSafeUrl accepts
RenderCall(q) ==
    /\ q.path = <<"/", "render">>
    /\ q.query = RenderQuery
    /\ ~IsInternalRender(q)
    /\ GetHostConfig(config, <<"a", ".", "x">>).ok

\* C17 as stated: a GET /render?url= request is handed on by the main routing
\* middleware to the /render handler, whose answer is HTML from the cache or
\* from a fresh render, also when the request's own Host matches no
\* configured host.
C17_RenderEndpointReached ==
    \A p \in Handled :
        LET r == procs[p]
        IN RenderCall(r.req)
           => /\ r.dec.kind = "next"
              /\ r.pc = "done" =>
                    r.resp.kind = "html" /\ r.resp.cache \in {"hit", "miss"}


\* the instant at which the timeout of a request is due
DueAt(r) == r.start + REQUEST_TIMEOUT_MS

\* C18: a request whose handler has not started its reply when the request
\* timeout is due is answered 504 by the timeout: past that instant no
\* request is unanswered, and a timeout that has fired has sent the 504 and
\* did so no earlier than it was due. A request whose handler replied has its
\* timeout cancelled and its response is not a 504; a 504 comes only from a
\* timeout that fired, and a timeout still armed belongs to a request
\* that has no response yet.
C18_Timeout504 ==
    \A p \in Handled :
       LET r == procs[p]
       IN /\ now > DueAt(r) => HeadersSent(r)
          /\ r.timer = "fired" => r.resp = ErrorResp(504) /\ now >= DueAt(r)
          /\ r.timer = "cleared" => HeadersSent(r) /\ r.resp.status # 504
          /\ r.resp.status = 504 => r.timer = "fired"
          /\ r.timer = "armed" => ~HeadersSent(r)
          /\ r.timer # "none"

\* a render still in progress when the timeout was due: the client has the
\* 504 and the handler has not finished
C18_Witness ==
    \E p \in Handled :
       /\ procs[p].timer = "fired"
       /\ procs[p].resp = ErrorResp(504)
       /\ InFlight(procs[p])
       /\ procs[p].renderCalls = 1


\* the reference semantics of a glob: "*" stands for any run of text, empty
\* or not, any other piece for itself, and the whole hostname is matched
RECURSIVE ReferenceGlob(_, _)
ReferenceGlob(pattern, hostname) ==
    IF pattern = <<>> THEN hostname = <<>>
    ELSE IF Head(pattern) = "*"
    THEN \E k \in 0..Len(hostname) :
            ReferenceGlob(Tail(pattern), SubSeq(hostname, k + 1, Len(hostname)))
    ELSE /\ hostname # <<>>
         /\ Head(hostname) = Head(pattern)
         /\ ReferenceGlob(Tail(pattern), Tail(hostname))

\* C20 as stated: for every pattern and hostname, matchesGlobPattern returns
\* what the reference semantics gives.
C20_GlobAgreesWithReference ==
    (call.fn = "matchesGlobPattern" /\ ret.ok)
    => ret.val = ReferenceGlob(call.pattern, call.hostname)


\* the layers of a field: the value the matched host sets, else the value
\* the environment or config.json sets, else the built-in default
Layered(c, hostField, envVar, fileField, default) ==
    LET hc == GetHostConfig(config, c.hostname)
    IN IF hc.ok /\ Has(hc.val, hostField) THEN hc.val[hostField]
       ELSE IF Has(c.env, envVar)
       THEN IF envVar = "STRATEGY" THEN c.env[envVar] ELSE ParseInt(c.env[envVar])
       ELSE IF Has(c.fileConfig, fileField) THEN c.fileConfig[fileField]
       ELSE default

\* C21 as stated: every overridable field of the effective configuration
\* is the matched host's value when set, else the value of config.json or
\* the environment, else the built-in default (an undefined root selector
\* or optimizer options stand for their defaults, a bots list left empty
\* in config.json for the default list); botOnly holds exactly for smart-ssr
\* and csr, and cacheTtl is the cleanup interval times 60.
C21_EffectiveConfigLayers ==
    (call.fn = "getEffectiveConfig" /\ ret.ok)
    => LET e == ret.val
           strategy == Layered(call, "strategy", "STRATEGY",
                               "strategy", "smart-ssr")
           fileBots == IF Has(call.fileConfig, "bots") /\ call.fileConfig.bots # <<>>
                       THEN call.fileConfig.bots ELSE DEFAULT_BOTS
       IN /\ e.renderingStrategy = strategy
          /\ e.botOnly = (strategy \in {"smart-ssr", "csr"})
          /\ e.timeoutMs = Layered(call, "timeoutMs", "TIMEOUT_MS",
                                   "none", 10000)
          /\ e.maxConcurrency =
                Layered(call, "parallelRenders", "MAX_CONCURRENCY",
                        "parallelRenders", 10)
          /\ e.bots = Layered(call, "bots", "none", "none", fileBots)
          /\ e.rootSelector =
                Layered(call, "rootSelector", "none", "rootSelector", Undefined)
          /\ e.htmlOptimizerOptions =
                Layered(call, "htmlOptimizerOptions", "none",
                        "htmlOptimizerOptions", Undefined)
          /\ e.clearCacheOnStartup =
                Layered(call, "none", "none", "clearCacheOnStartup", TRUE)
          /\ e.cacheTtl =
                60 * Layered(call, "none", "CACHE_CLEANUP_INTERVAL",
                             "cacheCleanupInterval", 60)


\* a request that the browser of a render sent to the loopback server
FromBrowser(r) == r.req.host = LocalHost /\ r.req.userAgent = RENDERX_USER_AGENT

\* C22: with one request from outside, every request the browser issues
\* during its render carries X-RenderX-Internal: true and is answered by the
\* router with a file or an error, without a cache lookup or a render, and
\* the active-render counter never exceeds 1.
C22_NoNestedRender ==
    /\ \A s \in Handled :
          FromBrowser(procs[s])
          => /\ IsInternalRender(procs[s].req)
             /\ procs[s].dec.kind \in {"file", "error"}
             /\ procs[s].pc = "done"
             /\ procs[s].cacheReads = 0
             /\ procs[s].renderCalls = 0
    /\ activeRequests <= 1

\* the browser of a render in progress was served a file by the router
C22_Witness ==
    /\ procs[1].pc = "r_browse"
    /\ activeRequests = 1
    /\ \E s \in Handled :
          /\ FromBrowser(procs[s])
          /\ procs[s].resp.kind = "file"
          /\ procs[s].req.origin = procs[1].req.origin


\* the set calls of a run of concurrent sets that have returned: the one the
\* get took the place of, and those still in their slots
CompletedSets ==
    {r \in {log} \cup {procs[p] : p \in Slots} :
        r.kind = "api" /\ r.op = "set" /\ r.pc = "done"}

\* C26 as stated: when two set calls for the same key ran concurrently and
\* both have returned, the two files of the key hold the HTML and the
\* metadata of one and the same of the two calls, and a get that follows
\* returns the HTML of that call.
C26_ConcurrentSetsWhole ==
    \A a, b \in CompletedSets :
       ( /\ a # b
         /\ KeyOf(a) = KeyOf(b)
         /\ \A p \in Slots : procs[p].pc \in {"idle", "done"} )
       => \E w \in {a, b} :
             /\ KeyOf(w) \in DOMAIN htmlFile \cap DOMAIN metaFile
             /\ htmlFile[KeyOf(w)] = w.html
             /\ metaFile[KeyOf(w)].expiresAt = w.expiresAt
             /\ ( procs[1].op = "get" /\ KeyOf(procs[1]) = KeyOf(w) )
                => procs[1].result = Some(w.html)


\* C27: at most one launch is in progress and at most one launched browser
\* is connected, and the handle held is that browser; every caller that
\* waits, waits for the one launch in progress, and a caller that was given
\* a handle while it waited was given the handle of the launch it waited
\* for; when no launch is in progress and no browser is connected (after a
\* failed launch or a disconnect) the handle and the latch are both clear,
\* so that the next call starts a launch.
C27_SingleFlight ==
    /\ Cardinality(launches.pending) <= 1
    /\ Cardinality(launches.connected) <= 1
    /\ Cardinality(launches.pending \cup launches.connected) <= 1
    /\ browser # 0 => launches.connected = {browser}
    /\ browser = 0 => launches.connected = {}
    /\ browserLaunchPromise # 0
          => launches.pending \cup launches.connected = {browserLaunchPromise}
    /\ browserLaunchPromise = 0 => launches.pending = {}
    /\ \A p \in Slots :
          /\ procs[p].pc = "launch_wait"
                => /\ procs[p].awaits = browserLaunchPromise
                   /\ procs[p].awaits \in launches.pending
          /\ ( procs[p].pc = "done" /\ procs[p].kind = "launch"
                /\ procs[p].awaits # 0 /\ procs[p].result.ok )
                => procs[p].result = Some(procs[p].awaits)

\* two callers were given the handle of one launch, started after an earlier
\* browser had gone
C27_Witness ==
    /\ launches.started >= 2
    /\ browser = launches.started
    /\ \A p \in Slots :
          /\ procs[p].pc = "done"
          /\ procs[p].awaits = browser
          /\ procs[p].result = Some(browser)


\* the render in slot p is in its finally block, the counter not yet released
InFinally(p) == procs[p].pc = "r_cleanup"

\* a render in its finally block still holds its slot, its cleanup timer is
\* armed for BROWSER_CLEANUP_TIMEOUT_MS after the end of the render body, and
\* that time has not passed
ReleaseNotOverdue ==
    \A p \in Slots :
        InFinally(p) =>
            /\ procs[p].admitted = 1 /\ procs[p].released = 0
            /\ activeRequests >= 1
            /\ procs[p].cleanupTimer = "armed"
            /\ procs[p].cleanupDue <= now + BROWSER_CLEANUP_TIMEOUT_MS
            /\ now <= procs[p].cleanupDue

\* C28: an admitted render whose body has finished releases its admission
\* slot, whether or not closing the page and the context ever completes: as
\* long as the counter is not decremented, no more than
\* BROWSER_CLEANUP_TIMEOUT_MS have passed since the end of the body, and
\* (within the time the clock covers) the render leaves the finally block
\* with the counter decremented.
C28_SlotReleasedWithinCleanupTimeout ==
    /\ []ReleaseNotOverdue
    /\ \A p \in {1} :
          (InFinally(p) /\ procs[p].cleanupDue <= MaxTime * REQUEST_TIMEOUT_MS)
             ~> (~InFinally(p) /\ procs[p].released = 1 /\ activeRequests = 0)

\* the cleanup never completed: the timer settled the race at its due time
\* and the slot is released
C28_Witness ==
    /\ procs[1].cleanupTimer = "fired"
    /\ procs[1].admitted = 1 /\ procs[1].released = 1
    /\ activeRequests = 0
    /\ now >= BROWSER_CLEANUP_TIMEOUT_MS

\* the steps of the readiness protocol after the navigation
LaterSteps ==
    {<<"w_idle", 1>>, <<"w_text", 1>>, <<"w_idle2", 1>>}
       \cup {<<"w_selector", i>> : i \in 1..RootSelectors}

\* a timeout of a step after the navigation is tolerated: the protocol goes
\* on to its next step or returns to the extraction, and never throws
LaterTimeoutTolerated ==
    \A p \in Slots :
        procs[p].timedOut \cap LaterSteps # {} =>
            procs[p].pc \in {"w_selector", "w_text", "w_idle2", "w_returned"}

\* a timeout of the navigation makes waitForReadiness throw
NavigationTimeoutFatal ==
    \A p \in Slots :
        <<"w_load", 1>> \in procs[p].timedOut =>
            procs[p].pc = "w_threw" /\ procs[p].thrown # <<>>

\* C29: in the readiness protocol a timeout of the navigation of step 1
\* makes the render fail (waitForReadiness throws), and a timeout of any
\* later step (network idle, the root selector waits, the text poll, the
\* second network idle) is tolerated: the protocol continues and returns to
\* the HTML extraction.
C29_OnlyNavigationTimeoutFatal ==
    NavigationTimeoutFatal /\ LaterTimeoutTolerated

RECURSIVE Total(_)
Total(seq) == IF seq = <<>> THEN 0 ELSE Head(seq) + Total(Tail(seq))

\* C30: the timeouts that waitForReadiness has given to its awaits (the
\* navigation, both waits for network idle, the selector waits and the text
\* poll) add up to no more than the timeoutMs of the render.
C30_BudgetsWithinTimeout ==
    \A p \in Slots :
        procs[p].op = "waitForReadiness" =>
            Total(procs[p].budgets) <= call.config.timeoutMs

\* the time spent in waitForReadiness is no more than timeoutMs
ElapsedWithinTimeout ==
    \A p \in Slots :
        procs[p].op = "waitForReadiness" =>
            now - procs[p].start <= call.config.timeoutMs

\* the host an internal request names: the one matched by the hostname of
\* its Origin, else the one matched by its Host header
NamedHost(q) ==
    LET byOrigin == IF q.origin # <<>> /\ ParseUrl(q.origin).ok
                    THEN GetHostConfigIndex(config, ParseUrl(q.origin).val.hostname)
                    ELSE 0
    IN IF byOrigin # 0 THEN byOrigin
       ELSE IF HostHeaderName(q) # <<>>
            THEN GetHostConfigIndex(config, HostHeaderName(q))
            ELSE 0

\* the answers an internal request has to choose from, in order of
\* preference; each is a list of at most one file
InternalPreference(q) ==
    LET hs == config.hosts
        n == NamedHost(q)
        page == ~IsFilePath(q.path)
        File(i) == DirectFile(SourcePathOf(hs[i]), q.path)
        Index(i) == PathJoin(SourcePathOf(hs[i]), IndexHtml)
        others == {i \in 1..Len(hs) :
                      /\ ActiveAt(hs, i)
                      /\ n # 0 => hs[i].source # hs[n].source
                      /\ File(i).ok}
        indexes == {i \in 1..Len(hs) : ActiveAt(hs, i) /\ Index(i) \in FsFiles}
    IN (IF n # 0 /\ File(n).ok THEN <<File(n).val>> ELSE <<>>)
       \o (IF n # 0 /\ page /\ Index(n) \in FsFiles THEN <<Index(n)>> ELSE <<>>)
       \o (IF others # {} THEN <<File(Least(others)).val>> ELSE <<>>)
       \o (IF page /\ indexes # {} THEN <<Index(Least(indexes))>> ELSE <<>>)

\* C31: an internal request is answered with the first of: an existing file
\* (or the index.html of an existing directory) in the source directory of
\* the host matched by its Origin, else by its Host; for a page path that
\* host's index.html; an existing file in another active host's source
\* directory, in configuration order; for a page path the index.html of the
\* first active host that has one; and with 404 when there is none. It is
\* never answered with 403, and never with a file of an inactive host.
C31_InternalPreference ==
    \A p \in Handled :
        LET r == procs[p]
            choice == InternalPreference(r.req)
        IN IsInternalRender(r.req) =>
              /\ r.pc = "done"
              /\ r.resp = IF choice # <<>> THEN FileResp(Head(choice))
                          ELSE ErrorResp(404)
              /\ r.resp.status # 403
              /\ r.resp.kind = "file" =>
                    /\ r.resp.body \in FsFiles
                    /\ \A i \in 1..Len(config.hosts) :
                          ~ActiveAt(config.hosts, i) =>
                              ~Inside(SourcePathOf(config.hosts[i]), r.resp.body)

\* an internal request that names host a.x for a file that only another
\* host has is answered with that other host's file
C31_Witness ==
    \E p \in Handled :
        /\ IsInternalRender(procs[p].req)
        /\ NamedHost(procs[p].req) = 2
        /\ procs[p].req.path = <<"/", "s", ".", "j">>
        /\ procs[p].resp = FileResp(Under(<<"a", "b">>, <<"/", "s", ".", "j">>))

\* the callers waiting in ensureCacheDir
WaitingForDir == {p \in Slots : procs[p].pc = "ensure_wait"}

\* at most one creation is in progress, the latch names it and every waiting
\* caller awaits it; once the directory is there nothing is in progress; and
\* when it is not there and nothing is in progress the latch is clear
OneCreation ==
    /\ Cardinality(mkdirs.pending) <= 1
    /\ mkdirs.pending # {} => mkdirs.pending = {cacheDirPromise}
    /\ \A p \in WaitingForDir : procs[p].awaits \in mkdirs.pending
    /\ cacheDirInitialized => mkdirs.pending = {}
    /\ (~cacheDirInitialized /\ mkdirs.pending = {}) => cacheDirPromise = 0

\* a creation is started only with the directory not there, the latch clear
\* and nothing in progress, and then the caller that finds this does start it
CreationsOnlyWhenNeeded ==
    /\ mkdirs'.started # mkdirs.started =>
          ~cacheDirInitialized /\ cacheDirPromise = 0 /\ mkdirs.pending = {}
    /\ (nCalls' # nCalls /\ ~cacheDirInitialized /\ cacheDirPromise = 0) =>
          /\ mkdirs'.started = mkdirs.started + 1
          /\ cacheDirPromise' = mkdirs'.started

\* C33: the creation of the cache directory is single-flight. Callers that
\* come while a creation is pending share it; after a creation has succeeded
\* no other is attempted; after a creation has failed the latch is clear, so
\* that the next caller attempts the creation again.
C33_DirSingleFlight ==
    []OneCreation /\ [][CreationsOnlyWhenNeeded]_vars

\* the first creation failed under a waiting caller, the next caller started a
\* second one, and it succeeded
C33_Witness ==
    /\ cacheDirInitialized /\ mkdirs.started = 2
    /\ \E p \in Slots, q \in Slots :
          /\ procs[p].pc = "done" /\ procs[p].awaits = 1 /\ procs[p].result = Null
          /\ procs[q].pc = "done" /\ procs[q].awaits = 2 /\ procs[q].result = Some("ready")

\* the entries of a directory that are whole and not expired at time t
Unexpired(dir, t) ==
    {k \in DOMAIN dir.meta :
        /\ k \in DOMAIN dir.html
        /\ Parses(dir.meta[k])
        /\ ~IsExpired(dir.meta[k], t)}

\* the startup step is in progress: the clear or the cleanup has begun and
\* has not finished
InStartupStep(r) == r.pc \in {"ensure_wait", "start_branch", "start_unlink", "start_cleanup"}

\* config.json asks for the cache to be cleared at startup, or does not say
ClearAsked ==
    Has(call.fileConfig, "clearCacheOnStartup") => call.fileConfig.clearCacheOnStartup

\* C32: at server start, when the configuration sets clearCacheOnStartup to
\* true or leaves it unset, every cache file is removed; when it sets it to
\* false, exactly one cleanup() runs and the unexpired entries survive; and
\* in both cases the periodic cleanup timer is set only once that startup
\* step has finished.
C32_StartupStepThenTimer ==
    \A p \in Slots :
        LET r == procs[p]
        IN r.kind = "start" =>
              /\ InStartupStep(r) => ~cleanupInterval.set
              /\ cleanupInterval.set => r.pc = "done" /\ r.result.ok
              /\ (r.pc = "done" /\ r.result.ok) =>
                    IF ClearAsked
                    THEN /\ r.result.val = [html |-> << >>, meta |-> << >>]
                         /\ r.cleanups = 0
                    ELSE /\ r.cleanups = 1
                         /\ \A k \in Unexpired(r.before, r.start) :
                               /\ k \in DOMAIN r.result.val.html
                               /\ k \in DOMAIN r.result.val.meta
                               /\ r.result.val.html[k] = r.before.html[k]
                               /\ r.result.val.meta[k] = r.before.meta[k]

\* what startCleanupInterval does with the flag it is given
StartupByArgument ==
    \A p \in Slots :
        LET r == procs[p]
        IN r.op = "startCleanupInterval" =>
              /\ InStartupStep(r) => ~cleanupInterval.set
              /\ cleanupInterval.set => r.pc = "done" /\ r.result.ok
              /\ (r.pc = "done" /\ r.result.ok) =>
                    IF r.args.clearOnStartup
                    THEN /\ r.result.val = [html |-> << >>, meta |-> << >>]
                         /\ r.cleanups = 0
                    ELSE /\ r.cleanups = 1
                         /\ \A k \in Unexpired(r.before, r.start) :
                               /\ k \in DOMAIN r.result.val.html
                               /\ k \in DOMAIN r.result.val.meta
                               /\ r.result.val.html[k] = r.before.html[k]
                               /\ r.result.val.meta[k] = r.before.meta[k]


-----------------------------------------------------------------------------
(* Properties of failing cache operations                                  *)

ReadFaults == {"read_meta", "read_html", "unlink"}

\* C34: a cache failure is never fatal to a request. A direct get in which a
\* read (or an unlink) failed, or whose metadata did not parse, returns null
\* and throws nothing; a direct set in which a write failed returns false and
\* throws nothing. On the routing path a request whose cache read failed goes
\* on to render() and is not answered from the cache, and a request whose
\* cache write failed is answered with the HTML it rendered unless the
\* timeout had answered before.
C34_CacheFailureNotFatal ==
    \A p \in Slots :
       LET r == procs[p]
           k == KeyOf(r)
       IN /\ (r.kind = "api" /\ r.pc = "done" /\ r.op = "get"
                 /\ (r.faults \cap ReadFaults # {}
                       \/ (k \in DOMAIN r.before.meta /\ ~Parses(r.before.meta[k])))) =>
                 r.result = Null /\ r.thrown = <<>>
          /\ (r.kind = "api" /\ r.pc = "done" /\ r.op = "set"
                 /\ "write" \in r.faults) =>
                 r.result = Some(FALSE) /\ r.thrown = <<>>
          /\ (r.kind = "http" /\ r.faults \cap ReadFaults # {}
                 /\ r.pc \notin {"get_unlink"}) =>
                 /\ r.renderCalls = 1
                 /\ r.resp.cache # "hit"
                 /\ r.thrown = <<>>
          /\ (r.kind = "http" /\ "write" \in r.faults) =>
                 /\ r.pc = "done"
                 /\ r.thrown = <<>>
                 /\ r.resp = IF r.timer = "fired" /\ r.resp.kind = "error"
                             THEN ErrorResp(504)
                             ELSE HtmlResp(r.html, "miss")

\* a request whose cache read failed and whose cache write failed has been
\* answered with its render, and direct calls have met both kinds of failure
C34_Witness ==
    /\ procs[1].kind = "http"
    /\ procs[1].pc = "done"
    /\ {"read_html", "write"} \subseteq procs[1].faults
    /\ procs[1].resp = HtmlResp(procs[1].html, "miss")
    /\ procs[1].html # ""


-----------------------------------------------------------------------------
(* Properties of the shutdown                                              *)

\* C35: when the process has exited on SIGTERM or SIGINT, the periodic
\* cleanup timer has been stopped and no launched browser is left open.
C35_ShutdownStopsTimerAndClosesBrowser ==
    exited => /\ ~cleanupInterval.set
              /\ launches.connected = {}

\* with a browser at the time of the signal the timer is stopped and the
\* close has been started, no more
ShutdownWithBrowser ==
    (exited /\ browser # 0) => /\ ~cleanupInterval.set
                               /\ browser \in launches.closing
                               /\ browser \in launches.connected

\* without a browser the process exits from the renderer's listener and the
\* timer is left as it was
ShutdownWithoutBrowser ==
    [][(exited' /\ ~exited /\ browser = 0) => cleanupInterval' = cleanupInterval]_vars


-----------------------------------------------------------------------------
(* Properties of the responses                                             *)

\* the response of a request, once sent, is never replaced
OneResponse ==
    [][\A p \in Slots :
          (HeadersSent(procs[p]) /\ procs'[p].req = procs[p].req /\ nCalls' = nCalls)
             => procs'[p].resp = procs[p].resp]_vars

\* once the handler has replied, the timeout is cleared and sends nothing
TimeoutSilentAfterReply ==
    \A p \in Slots :
       (procs[p].kind = "http" /\ procs[p].resp.status \notin {0, 504}) =>
           procs[p].timer = "cleared"

\* C36: every request receives at most one response: the timeout does not
\* fire after the handler's reply, and after the timeout's 504 the handler
\* attempts no send of its own (no rendered page, static file or error).
C36_AtMostOneResponse ==
    /\ TimeoutSilentAfterReply
    /\ \A p \in Slots : procs[p].late = {}

\* a render that outlives the timeout: the 504 has gone out and the handler
\* has gone on to send its page and the static fallback
LateSendAfter504 ==
    \E p \in Slots : /\ procs[p].resp = ErrorResp(504)
                     /\ procs[p].late = {"html", "file"}


-----------------------------------------------------------------------------
(* Properties of calls in flight together                                  *)

\* C37: a get that returns HTML returns the payload of a set call whose own
\* expiry had not passed when the get ran; it never returns the payload of an
\* expired set under the metadata of another.
C37_GetReturnsUnexpiredSet ==
    \A p \in Slots :
       LET r == procs[p]
       IN (r.op = "get" /\ r.pc = "done" /\ r.result.ok) =>
             \E i \in DOMAIN call.sets :
                /\ call.sets[i].html = r.result.val
                /\ ~IsExpired(call.sets[i], r.start)

\* what a get returns does come from some set of the run
GetReturnsSomeSet ==
    \A p \in Slots :
       LET r == procs[p]
       IN (r.op = "get" /\ r.pc = "done" /\ r.result.ok) =>
             \E i \in DOMAIN call.sets : call.sets[i].html = r.result.val

\* C38: when every call has returned, the entry of the last set, called with
\* no other set in flight, is in the cache directory while its expiry has
\* not passed: no get or cleanup that was in flight with it has removed it.
C38_WrittenEntryStays ==
    LET last == call.sets[Len(call.sets)]
    IN (/\ call.sets # <<>>
        /\ \A p \in Slots : ~InFlight(procs[p])
        /\ last.solo
        /\ ~IsExpired(last, now)) =>
           /\ RaceKey \in DOMAIN htmlFile
           /\ RaceKey \in DOMAIN metaFile
           /\ htmlFile[RaceKey] = last.html
           /\ metaFile[RaceKey].expiresAt = last.expiresAt


-----------------------------------------------------------------------------
(* Host isolation                                                          *)

\* the source directory of the host configuration matched to the hostname
\* of the request
OwnSource(q) == HostsRoot \o <<"/">> \o GetHostConfig(config, HostnameOf(q)).val.source

FromOwnSource(r) ==
    /\ HasHostname(r.req)
    /\ GetHostConfig(config, HostnameOf(r.req)).ok
    /\ Inside(OwnSource(r.req), r.resp.body)

\* the active hosts, in configuration order, under whose source directory
\* the path names a regular file
Holders(path) ==
    {i \in 1..Len(config.hosts) :
        /\ ActiveAt(config.hosts, i)
        /\ Under(config.hosts[i].source, path) \in FsFiles}

\* C39 as stated: a non-internal request answered with a file is answered
\* with a file from the source directory of the host configuration matched
\* to its own hostname.
C39_HostIsolation ==
    \A p \in Handled :
        LET r == procs[p]
        IN (~IsInternalRender(r.req) /\ r.resp.kind = "file") => FromOwnSource(r)

\* C39 amended: a non-internal request answered with a file is answered with
\* a file from the source directory of its own host, except that a request
\* without Origin for a path with a file extension is answered with the
\* regular file of that path under the first active host, in configuration
\* order, that has one, whichever host the request names.
C39_HostIsolationExceptFilesWithoutOrigin ==
    \A p \in Handled :
        LET r == procs[p]
            q == r.req
        IN (~IsInternalRender(q) /\ r.resp.kind = "file") =>
              IF q.origin = <<>> /\ PathExtname(q.path) # <<>> /\ Holders(q.path) # {}
              THEN r.resp.body =
                      Under(config.hosts[Least(Holders(q.path))].source, q.path)
              ELSE FromOwnSource(r)

\* a request for host a.x, without Origin, for /s.j, which only the source
\* directory of another host holds, is answered with that file
C39_Witness ==
    /\ procs[1].kind = "http" /\ procs[1].pc = "done"
    /\ procs[1].req.origin = <<>>
    /\ procs[1].req.host = <<"a", ".", "x", ":", "8080">>
    /\ procs[1].req.internal = <<>>
    /\ procs[1].req.path = <<"/", "s", ".", "j">>
    /\ GetHostConfig(config, HostnameOf(procs[1].req)).val.source = <<"a">>
    /\ procs[1].resp = FileResp(Under(<<"a", "b">>, <<"/", "s", ".", "j">>))


-----------------------------------------------------------------------------
(* Cache writes of the main routing path                                   *)

\* the cache key of a request (index.ts:640-642, 684-686)
RequestKey(q) ==
    IF q.origin # <<>> THEN q.origin \o OriginalUrl(q)
    ELSE <<"http://">> \o HostHeaderName(q) \o OriginalUrl(q)

\* a write of cache.set by slot p lands in this step
WriteStep(p) ==
    /\ procs[p].pc = "set_write"
    /\ procs'[p].pc # "set_write" \/ procs'[p].pending # procs[p].pending

\* what a successful render can return
RenderResults == RenderedPages \cup {OptimizedPage(h) : h \in RenderedPages}

\* C40: on the main routing path every cache write stores, under the cache
\* key of the request and device "desktop", the non-empty HTML that the
\* render of that request returned; nothing is written after a failed
\* render or an empty result, and no file gains content in any other step.
C40_WritesOnlySuccessfulRender ==
    [][/\ \A p \in Slots :
             WriteStep(p) =>
                LET r == procs[p]
                    k == GetCacheKey(RequestKey(r.req), <<"desktop">>)
                IN /\ r.kind = "http"
                   /\ r.renderCalls = 1
                   /\ r.renderErr = "none"
                   /\ r.html # ""
                   /\ r.html \in RenderResults
                   /\ htmlFile' \in {htmlFile, Write(htmlFile, k, r.html)}
                   /\ metaFile' \in
                        {metaFile,
                         Write(metaFile, k,
                               [expiresAt |-> r.expiresAt, url |-> RequestKey(r.req),
                                deviceType |-> <<"desktop">>])}
                   /\ htmlFile' # htmlFile \/ metaFile' # metaFile
                         \/ (k \in DOMAIN htmlFile /\ k \in DOMAIN metaFile)
       /\ (\A p \in Slots : ~WriteStep(p)) =>
             /\ \A k \in DOMAIN htmlFile' :
                   k \in DOMAIN htmlFile /\ htmlFile'[k] = htmlFile[k]
             /\ \A k \in DOMAIN metaFile' :
                   k \in DOMAIN metaFile /\ metaFile'[k] = metaFile[k]]_vars

\* a bot's request without Origin has been rendered and its page stored
\* under the key made from its Host header
C40_Witness ==
    LET r == procs[1]
        k == GetCacheKey(<<"http://", "a", ".", "x", "/", "p">>, <<"desktop">>)
    IN /\ r.kind = "http" /\ r.pc = "done"
       /\ r.req.origin = <<>>
       /\ r.resp = HtmlResp(r.html, "miss")
       /\ r.html \in RenderResults
       /\ k \in DOMAIN htmlFile /\ htmlFile[k] = r.html
       /\ k \in DOMAIN metaFile /\ metaFile[k].deviceType = <<"desktop">>

\* an empty render result and a failed render are answered with the static
\* file and leave the cache directory as it was
NothingStoredWithoutPage ==
    \A p \in Slots :
       LET r == procs[p]
       IN (r.kind = "http" /\ r.pc = "done" /\ r.renderCalls = 1
              /\ (r.renderErr # "none" \/ r.html = "")) =>
             /\ r.cacheWrites = 0
             /\ r.resp.kind \in {"file", "error"}

====
